---- MODULE Spec2Model ----
(***************************************************************************)
(* Model of the relevance-search core of memorai                           *)
(* (src/src/lib/smartSearch.ts, second version in the file, lines 463 on). *)
(*                                                                         *)
(* JavaScript strings are TLA+ strings; a character is a string of length  *)
(* one, s[i-1] in the code is Char(s, i) here.  The functions of the       *)
(* module are pure, so every specification draws the arguments of a call   *)
(* in its initial state (pc = "start") and each action applies one         *)
(* exported function to them, storing what it returns in ret.              *)
(***************************************************************************)
EXTENDS Integers, Sequences, FiniteSets, TLC

VARIABLES
    pc,     \* "start", then the name of the function that was applied
    args,   \* the arguments of the call
    ret,    \* what the call returned
    calls   \* the calls of getSuggestion the applied function made

vars == <<pc, args, ret, calls>>

\* ------------------------------------------------------------------------
\* Bounds of the model
\* ------------------------------------------------------------------------

\* longest string drawn as an argument of levenshteinDistance / stringSimilarity
MaxLen == 3

\* most words in a vocabulary handed to findBestMatch / getSuggestion
MaxVocab == 3

\* most records in the list handed to smartSearch
MaxWebsites == 3

\* largest limit passed to findRelatedWebsites
MaxLimit == 3

\* ------------------------------------------------------------------------
\* JavaScript primitives
\* ------------------------------------------------------------------------

\* the value of `null` / of an argument that was not supplied
Null == "<null>"

\* Number.POSITIVE_INFINITY: the code only ever tests a result for identity
\* with it (distance === Infinity), so a number above every length stands for it
Infinity == 1000000

Char(s, i) == SubSeq(s, i, i)

Abs(x) == IF x < 0 THEN -x ELSE x

Min2(x, y) == IF x <= y THEN x ELSE y

Max2(x, y) == IF x >= y THEN x ELSE y

Min3(x, y, z) == Min2(x, Min2(y, z))

UpperLetters == "ABCDEFGHIJKLMNOPQRSTUVWXYZ"

LowerLetters == "abcdefghijklmnopqrstuvwxyz"

Digits == "0123456789"

CharsOf(s) == {Char(s, i) : i \in 1..Len(s)}

\* String.prototype.toLowerCase on one character (ASCII letters are the only
\* cased characters of the alphabets used here)
LowerCaseOf ==
    [c \in CharsOf(UpperLetters) |->
        Char(LowerLetters, CHOOSE i \in 1..26 : Char(UpperLetters, i) = c)]

LowerChar(c) == IF c \in DOMAIN LowerCaseOf THEN LowerCaseOf[c] ELSE c

\* the concatenation of pieces[lo..hi]
RECURSIVE Concat(_, _, _)
Concat(pieces, lo, hi) ==
    IF lo > hi THEN ""
    ELSE IF lo = hi THEN pieces[lo]
    ELSE LET mid == (lo + hi) \div 2
         IN Concat(pieces, lo, mid) \o Concat(pieces, mid + 1, hi)

toLowerCase(s) == Concat([i \in 1..Len(s) |-> LowerChar(Char(s, i))], 1, Len(s))

\* all strings of exactly n characters over a set of characters
RECURSIVE StringsOfLen(_, _)
StringsOfLen(alphabet, n) ==
    IF n = 0 THEN {""}
    ELSE {s \o c : s \in StringsOfLen(alphabet, n - 1), c \in alphabet}

StringsUpTo(alphabet, n) == UNION {StringsOfLen(alphabet, k) : k \in 0..n}

\* ------------------------------------------------------------------------
\* Levenshtein distance (smartSearch.ts 510-553)
\* ------------------------------------------------------------------------

RECURSIVE SeqMin(_)
SeqMin(row) ==
    IF Len(row) = 1 THEN row[1] ELSE Min2(row[1], SeqMin(Tail(row)))

\* the inner loop (535-543): cur holds currRow[0..Len(cur)-1]; row index i of
\* the code is sequence index i+1
RECURSIVE FillRow(_, _, _, _, _)
FillRow(a, b, j, prevRow, cur) ==
    IF Len(cur) = Len(a) + 1 THEN cur
    ELSE LET i == Len(cur)
             cost == IF Char(a, i) = Char(b, j) THEN 0 ELSE 1
             v == Min3(prevRow[i + 1] + 1, cur[i] + 1, prevRow[i] + cost)
         IN FillRow(a, b, j, prevRow, Append(cur, v))

\* the abort test of line 546 as minInRow >= maxDistance
RowAbortsAtLimit(minInRow, maxDistance) == minInRow >= maxDistance

\* the abort test of line 546
RowAborts(minInRow, maxDistance) == minInRow > maxDistance

\* the outer loop (531-550) and the final cap (552)
RECURSIVE LevLoop(_, _, _, _, _)
LevLoop(a, b, maxDistance, j, prevRow) ==
    IF j > Len(b)
    THEN IF prevRow[Len(a) + 1] <= maxDistance
         THEN prevRow[Len(a) + 1] ELSE Infinity
    ELSE LET currRow == FillRow(a, b, j, prevRow, <<j>>)
             minInRow == SeqMin(currRow)
         IN IF RowAborts(minInRow, maxDistance) THEN Infinity
            ELSE LevLoop(a, b, maxDistance, j + 1, currRow)

\* levenshteinDistance without the b.length === 0 quick check of line 514
levenshteinDistanceNoBEmptyCheck(a, b, maxDistance) ==
    IF a = b THEN 0
    ELSE IF Len(a) = 0 THEN Len(b)
    ELSE IF Abs(Len(a) - Len(b)) > maxDistance THEN Infinity
    ELSE LET short == IF Len(a) > Len(b) THEN b ELSE a
             long == IF Len(a) > Len(b) THEN a ELSE b
         IN LevLoop(short, long, maxDistance, 1,
                    [i \in 1..(Len(short) + 1) |-> i - 1])

levenshteinDistance(a, b, maxDistance) ==
    IF a = b THEN 0
    ELSE IF Len(a) = 0 THEN Len(b)
    ELSE IF Len(b) = 0 THEN Len(a)
    ELSE IF Abs(Len(a) - Len(b)) > maxDistance THEN Infinity
    ELSE LET short == IF Len(a) > Len(b) THEN b ELSE a
             long == IF Len(a) > Len(b) THEN a ELSE b
         IN LevLoop(short, long, maxDistance, 1,
                    [i \in 1..(Len(short) + 1) |-> i - 1])

\* ------------------------------------------------------------------------
\* String similarity (smartSearch.ts 558-574)
\*
\* A JavaScript number that is a similarity is kept as an exact fraction
\* <<numerator, denominator>>.  For strings of at most 7 characters every
\* comparison the code makes between such numbers (with 0.6, 0.7, 0.75, and
\* with each other, with or without the 0.1 phonetic boost) has the same
\* outcome on IEEE doubles as on the exact fractions.
\* ------------------------------------------------------------------------

Frac(n, d) == <<n, d>>

FracLess(x, y) == x[1] * y[2] < y[1] * x[2]

FracLeq(x, y) == x[1] * y[2] <= y[1] * x[2]

FracEq(x, y) == x[1] * y[2] = y[1] * x[2]

FracAdd(x, y) == <<x[1] * y[2] + y[1] * x[2], x[2] * y[2]>>

\* stringSimilarity without the lowercasing of line 563
stringSimilarityCaseSensitive(a, b) ==
    IF a = b THEN Frac(1, 1)
    ELSE IF Len(a) = 0 \/ Len(b) = 0 THEN Frac(0, 1)
    ELSE LET maxLen == Max2(Len(a), Len(b))
             distance == levenshteinDistance(a, b, maxLen)
         IN IF distance = Infinity THEN Frac(0, 1)
            ELSE Frac(maxLen - distance, maxLen)

stringSimilarity(a, b) ==
    IF a = b THEN Frac(1, 1)
    ELSE IF Len(a) = 0 \/ Len(b) = 0 THEN Frac(0, 1)
    ELSE LET maxLen == Max2(Len(a), Len(b))
             distance == levenshteinDistance(toLowerCase(a), toLowerCase(b), maxLen)
         IN IF distance = Infinity THEN Frac(0, 1)
            ELSE Frac(maxLen - distance, maxLen)

\* isFuzzyMatch with > for the >= of line 573
isFuzzyMatchAboveOnly(query, target, threshold) ==
    FracLess(threshold, stringSimilarity(query, target))

\* lines 572-574
isFuzzyMatch(query, target, threshold) ==
    FracLeq(threshold, stringSimilarity(query, target))

\* ------------------------------------------------------------------------
\* Text processing utilities (smartSearch.ts 583-592)
\* ------------------------------------------------------------------------

\* \w of a JavaScript regular expression
WordChars == CharsOf(LowerLetters) \cup CharsOf(UpperLetters) \cup CharsOf(Digits) \cup {"_"}

IsWordChar(c) == c \in WordChars

\* \s of a JavaScript regular expression, over the characters used here
SpaceChars == {" ", "\t"}

\* replace(/[^\w\s]/g, ' ')
MapNonWordToSpace(s) ==
    Concat([i \in 1..Len(s) |->
               IF IsWordChar(Char(s, i)) \/ Char(s, i) \in SpaceChars
               THEN Char(s, i) ELSE " "], 1, Len(s))

\* replace(/\s+/g, ' '): of a run of whitespace the last character becomes
\* the one space, the others go
CollapseSpaces(s) ==
    Concat([i \in 1..Len(s) |->
               IF Char(s, i) \notin SpaceChars THEN Char(s, i)
               ELSE IF i < Len(s) /\ Char(s, i + 1) \in SpaceChars THEN ""
               ELSE " "], 1, Len(s))

\* String.prototype.trim
Trim(s) ==
    LET inked == {i \in 1..Len(s) : Char(s, i) \notin SpaceChars}
    IN IF inked = {} THEN ""
       ELSE SubSeq(s, CHOOSE i \in inked : \A k \in inked : i <= k,
                      CHOOSE i \in inked : \A k \in inked : k <= i)

\* the members of a set of positions, in increasing order
InOrder(positions) ==
    SubSeq([n \in 1..Cardinality(positions) |->
               CHOOSE i \in positions : Cardinality({k \in positions : k < i}) = n - 1],
           1, Cardinality(positions))

\* String.prototype.split on a one-character separator class: a piece ends at
\* every separator character, empty pieces included
SplitEach(s, seps) ==
    LET cuts == InOrder({i \in 1..Len(s) : Char(s, i) \in seps})
        from(n) == IF n = 1 THEN 1 ELSE cuts[n - 1] + 1
        to(n) == IF n = Len(cuts) + 1 THEN Len(s) ELSE cuts[n] - 1
    IN SubSeq([n \in 1..(Len(cuts) + 1) |-> SubSeq(s, from(n), to(n))], 1, Len(cuts) + 1)

\* split(/\s+/): a run of separators splits once, so the only empty pieces
\* are a leading and a trailing one
SplitRuns(s, seps) ==
    LET pieces == SplitEach(s, seps)
        keep == InOrder({i \in 1..Len(pieces) :
                            i = 1 \/ i = Len(pieces) \/ pieces[i] # ""})
    IN SubSeq([n \in 1..Len(keep) |-> pieces[keep[n]]], 1, Len(keep))

LongerThanOne(w) == Len(w) > 1

\* Array.prototype.join
Join(words, sep) ==
    Concat([k \in 1..(2 * Len(words) - 1) |->
               IF k % 2 = 1 THEN words[(k + 1) \div 2] ELSE sep],
           1, 2 * Len(words) - 1)

StartsWith(s, prefix) ==
    Len(prefix) <= Len(s) /\ SubSeq(s, 1, Len(prefix)) = prefix

Includes(s, part) ==
    \E i \in 1..(Len(s) - Len(part) + 1) : SubSeq(s, i, i + Len(part) - 1) = part

Range(seq) == {seq[i] : i \in 1..Len(seq)}

normalizeText(text) ==
    Trim(CollapseSpaces(MapNonWordToSpace(toLowerCase(text))))

extractWords(text) ==
    SelectSeq(SplitEach(normalizeText(text), {" "}), LongerThanOne)

\* ------------------------------------------------------------------------
\* Stemmer (smartSearch.ts 611-621)
\* ------------------------------------------------------------------------

EndsWith(s, suffix) ==
    Len(suffix) <= Len(s) /\ SubSeq(s, Len(s) - Len(suffix) + 1, Len(s)) = suffix

\* line 614, in the order of the array
Suffixes ==
    <<"ing", "ed", "es", "s", "tion", "ment", "ness", "able", "ible", "ful", "less",
      "ly", "er", "or", "ist", "ism">>

\* line 616
SuffixApplies(w, suffix) == Len(w) > Len(suffix) + 2 /\ EndsWith(w, suffix)

\* lines 611-621: the loop returns at the first suffix of the array that applies
stemWord(word) ==
    LET w == toLowerCase(word)
        applying == {i \in 1..Len(Suffixes) : SuffixApplies(w, Suffixes[i])}
        first == CHOOSE i \in applying : \A k \in applying : i <= k
    IN IF applying = {} THEN w
       ELSE SubSeq(w, 1, Len(w) - Len(Suffixes[first]))

\* ------------------------------------------------------------------------
\* Phonetic hash (smartSearch.ts 648-674)
\* ------------------------------------------------------------------------

PhoneticCode(c) ==
    IF c \in {"b", "f", "p", "v"} THEN "1"
    ELSE IF c \in {"c", "g", "j", "k", "q", "s", "x", "z"} THEN "2"
    ELSE IF c \in {"d", "t"} THEN "3"
    ELSE IF c = "l" THEN "4"
    ELSE IF c \in {"m", "n"} THEN "5"
    ELSE IF c = "r" THEN "6"
    ELSE "0"

RECURSIVE PadEnd(_, _, _)
PadEnd(s, n, c) == IF Len(s) >= n THEN s ELSE PadEnd(s \o c, n, c)

\* the loop of lines 665-671; i is the 0-based index of the code
RECURSIVE PhoneticLoop(_, _, _, _)
PhoneticLoop(w, i, result, prev) ==
    IF i < Len(w) /\ Len(result) < 4
    THEN LET code == PhoneticCode(Char(w, i + 1))
         IN PhoneticLoop(w, i + 1,
                         IF code # "0" /\ code # prev THEN result \o code ELSE result,
                         code)
    ELSE result

\* the loop of lines 665-671 without the code !== '0' test of line 667
RECURSIVE PhoneticLoopKeepZero(_, _, _, _)
PhoneticLoopKeepZero(w, i, result, prev) ==
    IF i < Len(w) /\ Len(result) < 4
    THEN LET code == PhoneticCode(Char(w, i + 1))
         IN PhoneticLoopKeepZero(w, i + 1,
                         IF code # prev THEN result \o code ELSE result,
                         code)
    ELSE result

phoneticHashKeepZero(word) ==
    IF Len(word) = 0 THEN ""
    ELSE LET w == toLowerCase(word)
         IN PadEnd(PhoneticLoopKeepZero(w, 1, Char(w, 1), PhoneticCode(Char(w, 1))), 4, "0")

phoneticHash(word) ==
    IF Len(word) = 0 THEN ""
    ELSE LET w == toLowerCase(word)
         IN PadEnd(PhoneticLoop(w, 1, Char(w, 1), PhoneticCode(Char(w, 1))), 4, "0")

\* ------------------------------------------------------------------------
\* Vocabulary and spelling suggestions (smartSearch.ts 711-763)
\*
\* A Set<string> iterates in insertion order: a vocabulary is a sequence of
\* distinct strings.
\* ------------------------------------------------------------------------

\* line 731
adjustedSimilarity(phoneticMatch, similarity) ==
    IF phoneticMatch THEN FracAdd(similarity, Frac(1, 10)) ELSE similarity

\* the comparison of line 733 with >= for >
BetterThanOrEqual(adjusted, bestSimilarity) == FracLeq(bestSimilarity, adjusted)

\* line 733
BetterThan(adjusted, bestSimilarity) == FracLess(bestSimilarity, adjusted)

\* the loop of lines 719-737
RECURSIVE FindBestLoop(_, _, _, _, _, _)
FindBestLoop(word, wordPhonetic, vocabulary, i, bestMatch, bestSimilarity) ==
    IF i > Len(vocabulary) THEN bestMatch
    ELSE LET vocabWord == vocabulary[i]
         IN IF Abs(Len(word) - Len(vocabWord)) > 2
            THEN FindBestLoop(word, wordPhonetic, vocabulary, i + 1, bestMatch, bestSimilarity)
            ELSE LET adjusted == adjustedSimilarity(wordPhonetic = phoneticHash(vocabWord),
                                                    stringSimilarity(word, vocabWord))
                 IN IF BetterThan(adjusted, bestSimilarity)
                    THEN FindBestLoop(word, wordPhonetic, vocabulary, i + 1, vocabWord, adjusted)
                    ELSE FindBestLoop(word, wordPhonetic, vocabulary, i + 1, bestMatch, bestSimilarity)

findBestMatch(word, vocabulary) ==
    IF word \in Range(vocabulary) THEN Null
    ELSE FindBestLoop(word, phoneticHash(word), vocabulary, 1, Null, Frac(6, 10))

\* the truthiness test `if (correction)` of line 754
Truthy(s) == s # Null /\ s # ""

\* getSuggestion without the else branch of lines 757-759
getSuggestionDropsUncorrected(query, vocabulary) ==
    LET words == extractWords(query)
        corrections == [i \in 1..Len(words) |-> findBestMatch(words[i], vocabulary)]
        hasCorrection == \E i \in 1..Len(words) : Truthy(corrections[i])
    IN IF Len(words) = 0 THEN Null
       ELSE IF hasCorrection THEN Join(SelectSeq(corrections, Truthy), " ") ELSE Null

getSuggestion(query, vocabulary) ==
    LET words == extractWords(query)
        corrections == [i \in 1..Len(words) |-> findBestMatch(words[i], vocabulary)]
        correctedWords == [i \in 1..Len(words) |->
                              IF Truthy(corrections[i]) THEN corrections[i] ELSE words[i]]
        hasCorrection == \E i \in 1..Len(words) : Truthy(corrections[i])
    IN IF Len(words) = 0 THEN Null
       ELSE IF hasCorrection THEN Join(correctedWords, " ") ELSE Null

\* ------------------------------------------------------------------------
\* Vocabulary builder (smartSearch.ts 683-706)
\* ------------------------------------------------------------------------

\* lines 688-693: the searchable fields of a record, in the order they are read
SearchableFields(website) ==
    <<website.title, website.description, website.category, website.url>>

\* the concatenation of the sequences seqs[lo..hi]
RECURSIVE FlattenRange(_, _, _)
FlattenRange(seqs, lo, hi) ==
    IF lo > hi THEN <<>>
    ELSE IF lo = hi THEN seqs[lo]
    ELSE LET mid == (lo + hi) \div 2
         IN FlattenRange(seqs, lo, mid) \o FlattenRange(seqs, mid + 1, hi)

Flatten(seqs) == FlattenRange(seqs, 1, Len(seqs))

\* buildVocabulary with the test of line 698 as word.length >= 2
buildVocabularyKeepsShortWords(websites) ==
    LET fields == Flatten([i \in 1..Len(websites) |-> SearchableFields(websites[i])])
        words == Flatten([k \in 1..Len(fields) |-> extractWords(fields[k])])
        added == {i \in 1..Len(words) :
                     /\ Len(words[i]) >= 2
                     /\ \A k \in 1..(i - 1) : words[k] # words[i]}
        order == InOrder(added)
    IN SubSeq([n \in 1..Len(order) |-> words[order[n]]], 1, Len(order))

\* lines 686-703: every word of every field of every record is offered to
\* Set.prototype.add in turn; a Set keeps the first insertion of each member, so
\* the vocabulary is the words of 3 or more characters at their first occurrence
buildVocabulary(websites) ==
    LET fields == Flatten([i \in 1..Len(websites) |-> SearchableFields(websites[i])])
        words == Flatten([k \in 1..Len(fields) |-> extractWords(fields[k])])
        added == {i \in 1..Len(words) :
                     /\ Len(words[i]) >= 3
                     /\ \A k \in 1..(i - 1) : words[k] # words[i]}
        order == InOrder(added)
    IN SubSeq([n \in 1..Len(order) |-> words[order[n]]], 1, Len(order))

\* ------------------------------------------------------------------------
\* Scoring system (smartSearch.ts 772-975)
\* ------------------------------------------------------------------------

EXACT_TITLE_FULL == 1000
EXACT_TITLE_WORD == 500
WORD_BOUNDARY_TITLE == 400
PREFIX_TITLE == 300
FUZZY_TITLE == 150
EXACT_DESCRIPTION_WORD == 200
WORD_BOUNDARY_DESC == 150
EXACT_URL_PART == 250
URL_CONTAINS == 100
EXACT_CATEGORY == 400
CATEGORY_CONTAINS == 200
ACRONYM_MATCH == 350
ALL_TERMS_MATCH == 200
PINNED_BOOST == 50

MIN_SCORE_THRESHOLD == 150

\* whether the regular-expression assertion \b holds in text before the
\* character at position p (1..Len(text)+1): exactly one of the characters
\* around the position is a word character
WordBoundaryAt(text, p) ==
    LET before == p > 1 /\ IsWordChar(Char(text, p - 1))
        after == p <= Len(text) /\ IsWordChar(Char(text, p))
    IN before # after

\* escapeRegex makes every character of the term literal, so the pattern is
\* the term itself; the 'i' flag compares letters without case
LiteralAt(termLower, textLower, p) ==
    /\ p + Len(termLower) - 1 <= Len(textLower)
    /\ SubSeq(textLower, p, p + Len(termLower) - 1) = termLower

\* new RegExp(`\\b${term}\\b`, 'i').test(text)
isWordMatch(term, text) ==
    LET termLower == toLowerCase(term)
        textLower == toLowerCase(text)
    IN \E p \in 1..(Len(text) + 1) :
           /\ LiteralAt(termLower, textLower, p)
           /\ WordBoundaryAt(text, p)
           /\ WordBoundaryAt(text, p + Len(term))

\* new RegExp(`\\b${term}`, 'i').test(text)
isWordStartMatch(term, text) ==
    LET termLower == toLowerCase(term)
        textLower == toLowerCase(text)
    IN \E p \in 1..(Len(text) + 1) :
           /\ LiteralAt(termLower, textLower, p)
           /\ WordBoundaryAt(text, p)

FirstChars(words) ==
    Concat([i \in 1..Len(words) |-> Char(words[i], 1)], 1, Len(words))

generateAcronym(text) == toLowerCase(FirstChars(extractWords(text)))

\* replace(/[^\w]/g, '')
StripNonWord(s) ==
    Concat([i \in 1..Len(s) |-> IF IsWordChar(Char(s, i)) THEN Char(s, i) ELSE ""],
           1, Len(s))

matchesAcronym(query, text) ==
    LET acronym == generateAcronym(text)
        q == StripNonWord(toLowerCase(query))
    IN Len(acronym) >= 2 /\ (acronym = q \/ StartsWith(acronym, q))

\* the length of the match of /https?:\/\/(www\.)?/ that starts at position i
\* of s, 0 when none does
SchemeAt(s, i) ==
    LET rest == SubSeq(s, i, Len(s))
        n == IF StartsWith(rest, "https://") THEN 8
             ELSE IF StartsWith(rest, "http://") THEN 7 ELSE 0
    IN IF n > 0 /\ StartsWith(SubSeq(rest, n + 1, Len(rest)), "www.") THEN n + 4 ELSE n

\* replace(/https?:\/\/(www\.)?/g, ''): a match holds the letter h only as
\* its first character, so no occurrence starts inside another match and every
\* occurrence is removed
StripScheme(s) ==
    Concat([i \in 1..Len(s) |->
               IF \E k \in 1..i : SchemeAt(s, k) > i - k THEN "" ELSE Char(s, i)],
           1, Len(s))

UrlSeparators == {"/", ".", "-", "_", "?", "&", "#", "="}

AtLeastTwo(t) == Len(t) >= 2

\* one award of calculateScore: the points added, the tag pushed on
\* matchedFields (Null: none), the term pushed on matchedTerms (Null: none) and
\* whether the term is pushed only when not yet there
Award(points, field, term, once) ==
    [points |-> points, field |-> field, term |-> term, once |-> once]

\* lines 866-912: the awards for the whole query
FullQueryAwards(queryLower, title, titleLower, descriptionLower, categoryLower, urlParts) ==
    (IF isWordMatch(queryLower, titleLower)
     THEN <<Award(EXACT_TITLE_FULL, "title-exact-word", queryLower, FALSE)>>
     ELSE IF isWordStartMatch(queryLower, titleLower)
     THEN <<Award(WORD_BOUNDARY_TITLE, "title-word-start", queryLower, FALSE)>>
     ELSE <<>>)
    \o
    (IF isWordMatch(queryLower, descriptionLower)
     THEN <<Award(EXACT_DESCRIPTION_WORD, "description-exact-word", Null, FALSE)>>
     ELSE <<>>)
    \o
    (IF categoryLower = queryLower \/ isWordMatch(queryLower, categoryLower)
     THEN <<Award(EXACT_CATEGORY, "category-exact", queryLower, FALSE)>>
     ELSE IF Includes(categoryLower, queryLower)
     THEN <<Award(CATEGORY_CONTAINS, "category-contains", Null, FALSE)>>
     ELSE <<>>)
    \o
    (IF \E i \in 1..Len(urlParts) : urlParts[i] = queryLower
     THEN <<Award(EXACT_URL_PART, "url-exact-part", queryLower, FALSE)>>
     ELSE IF \E i \in 1..Len(urlParts) :
                StartsWith(urlParts[i], queryLower) /\ Len(queryLower) >= 3
     THEN <<Award(URL_CONTAINS, "url-starts", Null, FALSE)>>
     ELSE <<>>)
    \o
    (IF Len(queryLower) >= 2 /\ Len(queryLower) <= 4 /\ matchesAcronym(queryLower, title)
     THEN <<Award(ACRONYM_MATCH, "title-acronym", queryLower \o "(acronym)", FALSE)>>
     ELSE <<>>)

\* lines 917-958: the awards of one query term
TermAwards(term, titleWords, descriptionLower, urlParts) ==
    (IF term \in Range(titleWords)
     THEN <<Award(EXACT_TITLE_WORD, "title-word", term, TRUE)>>
     ELSE IF \E i \in 1..Len(titleWords) : StartsWith(titleWords[i], term)
     THEN <<Award(PREFIX_TITLE, "title-prefix", term, TRUE)>>
     ELSE IF Len(term) >= 4
     THEN LET fuzzy == {i \in 1..Len(titleWords) :
                           /\ Len(titleWords[i]) >= 4
                           /\ isFuzzyMatch(term, titleWords[i], Frac(75, 100))}
          IN IF fuzzy = {} THEN <<>>
             ELSE LET first == CHOOSE i \in fuzzy : \A k \in fuzzy : i <= k
                  IN <<Award(FUZZY_TITLE, "title-fuzzy", titleWords[first], TRUE)>>
     ELSE <<>>)
    \o
    (IF isWordMatch(term, descriptionLower)
     THEN <<Award(WORD_BOUNDARY_DESC, "desc-word", Null, FALSE)>>
     ELSE <<>>)
    \o
    (IF \E i \in 1..Len(urlParts) : urlParts[i] = term \/ StartsWith(urlParts[i], term)
     THEN <<Award(URL_CONTAINS, "url-term", Null, FALSE)>>
     ELSE <<>>)

RECURSIVE SumPoints(_)
SumPoints(awards) ==
    IF Len(awards) = 0 THEN 0 ELSE awards[1].points + SumPoints(Tail(awards))

RECURSIVE PushTerms(_, _)
PushTerms(matchedTerms, awards) ==
    IF Len(awards) = 0 THEN matchedTerms
    ELSE LET a == awards[1]
         IN PushTerms(IF a.term = Null \/ (a.once /\ a.term \in Range(matchedTerms))
                      THEN matchedTerms ELSE Append(matchedTerms, a.term),
                      Tail(awards))

HasField(a) == a.field # Null

\* lines 969-972 without the score > 0 test of line 970
PinnedBoostUnconditional(website, score) ==
    IF website.is_pinned THEN PINNED_BOOST ELSE 0

\* lines 969-972
PinnedBoost(website, score) ==
    IF website.is_pinned /\ score > 0 THEN PINNED_BOOST ELSE 0

\* lines 963-974 with the all-terms bonus given to one-term queries too
ScoreOfAwardsBonusForOneTerm(website, queryTerms, termsMatched, awards) ==
    LET allTerms == IF Len(queryTerms) >= 1 /\ termsMatched = Len(queryTerms)
                    THEN ALL_TERMS_MATCH ELSE 0
        matched == SumPoints(awards) + allTerms
        fields == SelectSeq(awards, HasField)
    IN [website |-> website,
        score |-> matched + PinnedBoost(website, matched),
        matchedTerms |-> PushTerms(<<>>, awards),
        matchedFields |-> [i \in 1..Len(fields) |-> fields[i].field]]

\* lines 963-974: the total of the awards, the all-terms bonus and the pinned
\* boost, and the lists returned with the score
ScoreOfAwards(website, queryTerms, termsMatched, awards) ==
    LET allTerms == IF Len(queryTerms) > 1 /\ termsMatched = Len(queryTerms)
                    THEN ALL_TERMS_MATCH ELSE 0
        matched == SumPoints(awards) + allTerms
        fields == SelectSeq(awards, HasField)
    IN [website |-> website,
        score |-> matched + PinnedBoost(website, matched),
        matchedTerms |-> PushTerms(<<>>, awards),
        matchedFields |-> [i \in 1..Len(fields) |-> fields[i].field]]

\* lines 915-961: the loop over the query terms; a term has matched when it
\* earned an award
ScoreOfTerms(website, queryTerms, full, perTerm) ==
    ScoreOfAwards(website, queryTerms,
                  Cardinality({i \in 1..Len(queryTerms) : Len(perTerm[i]) > 0}),
                  full \o Flatten(perTerm))

PerTermAwards(queryTerms, titleWords, descriptionLower, urlParts) ==
    [i \in 1..Len(queryTerms) |->
        TermAwards(queryTerms[i], titleWords, descriptionLower, urlParts)]

\* lines 843-862 (the derived fields) and 866-961
ScoreOfFields(website, queryLower, titleLower, descriptionLower, categoryLower, urlParts) ==
    ScoreOfTerms(website,
                 SelectSeq(SplitRuns(queryLower, SpaceChars), AtLeastTwo),
                 FullQueryAwards(queryLower, website.title, titleLower, descriptionLower,
                                 categoryLower, urlParts),
                 PerTermAwards(SelectSeq(SplitRuns(queryLower, SpaceChars), AtLeastTwo),
                               SelectSeq(SplitRuns(titleLower, SpaceChars), LongerThanOne),
                               descriptionLower, urlParts))

calculateScore(query, website) ==
    ScoreOfFields(website,
                  Trim(toLowerCase(query)),
                  toLowerCase(website.title),
                  toLowerCase(website.description),
                  toLowerCase(website.category),
                  SelectSeq(SplitEach(StripScheme(toLowerCase(website.url)), UrlSeparators),
                            LongerThanOne))

\* ------------------------------------------------------------------------
\* The records and queries of the model
\* ------------------------------------------------------------------------

\* a record of type Website (types/index.ts 1-13) with the fields the search
\* reads; a missing description is the empty string (`website.description || ''`)
Website(id, title, url, category, description, is_pinned) ==
    [id |-> id, title |-> title, url |-> url, category |-> category,
     description |-> description, is_pinned |-> is_pinned]

WebsitePool ==
    {Website("1", "React Hooks Guide", "https://react.dev/hooks", "Dev", "", FALSE),
     Website("2", "Learn React", "https://www.example.com/learn", "Dev", "A react course", FALSE),
     Website("3", "Code Host", "https://github.com/foo", "Tools", "", TRUE),
     Website("4", "Reactive UI", "http://gitlab.com/rx", "Web", "", FALSE),
     Website("5", "React Basics", "https://basics.org", "Dev", "about react", FALSE)}

SearchQueries ==
    {"", " \t ", " React ", "reactt", "recat", "gi", "git xyz",
     "hooks react", "reactt hooks", "rhg"}

\* the queries of the calls made on lists in memory
CallQueries == {"", "r", " t", "react", "RHG"}

\* the records scored one at a time: every combination of these titles,
\* descriptions, addresses and pin flags
ScoreTitles == {"React Hooks Guide", "C++ Guide", "React-Hooks", "Cooking", "Cat Food"}

ScoreDescriptions == {"", "about react", "about react hooks"}

ScoreUrls == {"https://react.dev/hooks", "https://food.net"}

ScoreWebsites ==
    {Website("s", t, u, "Dev", d, p) :
        t \in ScoreTitles, u \in ScoreUrls, d \in ScoreDescriptions, p \in BOOLEAN}

ScoreQueries ==
    {"react", "React", "c++", "react hooks", "hooks react", "react zzz", "react react",
     "a react", "zzz", "hooks",
     "cats", "fool"}

\* calculateScore is a pure function of the query and the record: its values
\* on the (trimmed) queries and the records of the model are computed once
ScoreTable ==
    [p \in ({Trim(x) : x \in SearchQueries \cup CallQueries} \X WebsitePool)
            \cup (ScoreQueries \X ScoreWebsites) |-> calculateScore(p[1], p[2])]

Scored(query, website) == ScoreTable[<<query, website>>]

\* ------------------------------------------------------------------------
\* Main search function (smartSearch.ts 989-1030)
\* ------------------------------------------------------------------------

\* the filter of the first version of the function (line 410)
AnyPositiveScore(sw) == sw.score > 0

\* the filter of line 1011
AboveThreshold(sw) == sw.score >= MIN_SCORE_THRESHOLD

\* the comparator with its operands exchanged, a.score - b.score
SortsBeforeAscending(a, b) == a.score - b.score < 0

\* the comparator of line 1012, (a, b) => b.score - a.score, is negative
\* (a sorts before b) exactly when a's score is the higher one
SortsBefore(a, b) == b.score - a.score < 0

\* Array.prototype.sort is stable (ECMAScript 2019): x goes after every element
\* it does not sort before
RECURSIVE InsertSorted(_, _)
InsertSorted(sorted, x) ==
    IF Len(sorted) = 0 THEN <<x>>
    ELSE IF SortsBefore(x, sorted[Len(sorted)])
    THEN Append(InsertSorted(SubSeq(sorted, 1, Len(sorted) - 1), x), sorted[Len(sorted)])
    ELSE Append(sorted, x)

RECURSIVE Sort(_)
Sort(scored) ==
    IF Len(scored) = 0 THEN <<>>
    ELSE InsertSorted(Sort(SubSeq(scored, 1, Len(scored) - 1)), scored[Len(scored)])

\* The arrays of a call live in a heap, each under the name of the parameter,
\* variable or method that holds it.

\* a map, filter or slice that also overwrites the array it is called on
ArrayNewOverSource(heap, src, dst, elements) ==
    [r \in DOMAIN heap \cup {dst} |-> IF r \in {src, dst} THEN elements ELSE heap[r]]

\* Array.prototype.map, filter and slice called on the array src: the elements
\* go to a new array, dst, and src is left as it is
ArrayNew(heap, src, dst, elements) ==
    [r \in DOMAIN heap \cup {dst} |-> IF r = dst THEN elements ELSE heap[r]]

\* a sort that leaves the array in the opposite order
ArraySortReversed(heap, ref) ==
    [heap EXCEPT ![ref] = [i \in 1..Len(heap[ref]) |->
                              Sort(heap[ref])[Len(heap[ref]) + 1 - i]]]

\* Array.prototype.sort sorts the array it is called on, in place
ArraySort(heap, ref) == [heap EXCEPT ![ref] = Sort(heap[ref])]

\* lines 1009-1012: websites.map(...).filter(...).sort(...)
SearchHeap(trimmedQuery, heap) ==
    LET mapped == ArrayNew(heap, "websites", "map",
                           [i \in 1..Len(heap["websites"]) |->
                               Scored(trimmedQuery, heap["websites"][i])])
        filtered == ArrayNew(mapped, "map", "scoredWebsites",
                             SelectSeq(mapped["map"], AboveThreshold))
    IN ArraySort(filtered, "scoredWebsites")

\* lines 1009-1012
ScoredWebsites(trimmedQuery, websites) ==
    SearchHeap(trimmedQuery, [websites |-> websites])["scoredWebsites"]

\* the guard of line 1016: `vocabulary` is truthy when it was supplied, and an
\* empty Set is truthy too
Supplied(vocabulary) == vocabulary # Null

\* the guard of line 1016 without its test of the number of results
RunsCorrectorAlways(vocabulary, scoredWebsites) == Supplied(vocabulary)

RunsCorrector(vocabulary, scoredWebsites) ==
    Supplied(vocabulary) /\ Len(scoredWebsites) < 3

\* lines 1018-1021
KeptSuggestion(suggestion, trimmedQuery) ==
    IF Truthy(suggestion) /\ normalizeText(suggestion) = normalizeText(trimmedQuery)
    THEN Null ELSE suggestion

\* the test of line 997 applied to the query as passed, not trimmed
IsEmptyQueryUntrimmed(query, trimmedQuery) == query = ""

\* line 997
IsEmptyQuery(query, trimmedQuery) == trimmedQuery = ""

\* lines 1014-1029: the suggestion and the result, with the calls of
\* getSuggestion made on the way (line 1017)
SearchResult(trimmedQuery, vocabulary, scoredWebsites, suggestion) ==
    [result |-> [websites |-> [i \in 1..Len(scoredWebsites) |-> scoredWebsites[i].website],
                 suggestion |-> IF RunsCorrector(vocabulary, scoredWebsites)
                                THEN KeptSuggestion(suggestion, trimmedQuery)
                                ELSE Null,
                 query |-> trimmedQuery,
                 totalMatches |-> Len(scoredWebsites)],
     calls |-> IF RunsCorrector(vocabulary, scoredWebsites)
               THEN <<[fn |-> "getSuggestion", query |-> trimmedQuery,
                       vocabulary |-> vocabulary]>>
               ELSE <<>>]

\* lines 994-1004 and 1006-1029, for the query as passed and trimmed
Search(query, trimmedQuery, websites, vocabulary) ==
    IF IsEmptyQuery(query, trimmedQuery)
    THEN [result |-> [websites |-> websites, suggestion |-> Null, query |-> "",
                      totalMatches |-> Len(websites)],
          calls |-> <<>>]
    ELSE SearchResult(trimmedQuery, vocabulary, ScoredWebsites(trimmedQuery, websites),
                      getSuggestion(trimmedQuery, vocabulary))

\* smartSearch: its result, and the calls of getSuggestion it made
smartSearch(query, websites, vocabulary) ==
    Search(query, Trim(query), websites, vocabulary)

\* ------------------------------------------------------------------------
\* Quick search (smartSearch.ts 1036-1077)
\* ------------------------------------------------------------------------

\* a filter on the substring alone
QuickMatchesBySubstring(trimmedQuery, website) ==
    Includes(toLowerCase(Join(<<website.title, website.description, website.category,
                                website.url>>, " ")), trimmedQuery)

\* the filter callbacks of lines 1043-1050 (a query of one character) and
\* 1055-1076 (a longer one)
QuickMatches(trimmedQuery, website) ==
    IF Len(trimmedQuery) = 1
    THEN \E w \in Range(extractWords(Join(<<website.title, website.description,
                                            website.category>>, " "))) :
             StartsWith(w, trimmedQuery)
    ELSE LET searchable == Join(<<toLowerCase(website.title),
                                  toLowerCase(website.description),
                                  toLowerCase(website.category),
                                  toLowerCase(website.url)>>, " ")
         IN \/ Includes(searchable, trimmedQuery)
            \/ \E word \in Range(SplitRuns(searchable,
                                           SpaceChars \cup {"-", "_", "/", "."})) :
                  StartsWith(word, trimmedQuery)
            \/ /\ Len(trimmedQuery) <= 4
               /\ StartsWith(generateAcronym(website.title), trimmedQuery)

\* lines 1036-1077: the arrays after the call; the array returned is
\* "websites" itself for an empty query (line 1039), "filter" otherwise
quickSearchHeap(trimmedQuery, heap) ==
    LET Keep(website) == QuickMatches(trimmedQuery, website)
    IN IF trimmedQuery = "" THEN heap
       ELSE ArrayNew(heap, "websites", "filter", SelectSeq(heap["websites"], Keep))

quickSearch(query, websites) ==
    LET trimmedQuery == toLowerCase(Trim(query))
    IN IF trimmedQuery = "" THEN websites
       ELSE quickSearchHeap(trimmedQuery, [websites |-> websites])["filter"]

\* ------------------------------------------------------------------------
\* Specification SpecLev: one call of the edit-distance engine
\* ------------------------------------------------------------------------

LevAlphabet == {"a", "b", "A"}

LevStrings == StringsUpTo(LevAlphabet, MaxLen)

InitLev ==
    /\ pc = "start"
    /\ args \in [a : LevStrings, b : LevStrings, maxDistance : 0..MaxLen]
    /\ ret = Null
    /\ calls = <<>>

CallLevenshteinDistance ==
    /\ pc = "start"
    /\ pc' = "levenshteinDistance"
    /\ ret' = levenshteinDistance(args.a, args.b, args.maxDistance)
    /\ UNCHANGED <<args, calls>>

CallStringSimilarity ==
    /\ pc = "start"
    /\ pc' = "stringSimilarity"
    /\ ret' = stringSimilarity(args.a, args.b)
    /\ UNCHANGED <<args, calls>>

NextLev == CallLevenshteinDistance \/ CallStringSimilarity

SpecLev == InitLev /\ [][NextLev]_vars

\* ------------------------------------------------------------------------
\* Specification SpecMatch: one call of the spelling corrector
\* ------------------------------------------------------------------------

\* all sequences of at most n distinct members of a set
RECURSIVE DistinctSeqsOfLen(_, _)
DistinctSeqsOfLen(S, n) ==
    IF n = 0 THEN {<<>>}
    ELSE UNION {{Append(q, x) : x \in S \ Range(q)} : q \in DistinctSeqsOfLen(S, n - 1)}

DistinctSeqsUpTo(S, n) == UNION {DistinctSeqsOfLen(S, k) : k \in 0..n}

\* words a vocabulary may hold: near and far neighbours of the typo "recat"
VocabPool == {"react", "recta", "recap", "reach", "recat", "redact", "hooks"}

\* strings handed to findBestMatch as the word and to getSuggestion as the query
MatchQueries == {"recat", "Recat", "rec", "react", "reactt", "hoks recat",
                 " Recat, x  hooks", "x", ""}

InitMatch ==
    /\ pc = "start"
    /\ args \in [query : MatchQueries,
                 vocabulary : DistinctSeqsUpTo(VocabPool, MaxVocab)]
    /\ ret = Null
    /\ calls = <<>>

CallFindBestMatch ==
    /\ pc = "start"
    /\ pc' = "findBestMatch"
    /\ ret' = findBestMatch(args.query, args.vocabulary)
    /\ UNCHANGED <<args, calls>>

CallGetSuggestion ==
    /\ pc = "start"
    /\ pc' = "getSuggestion"
    /\ ret' = getSuggestion(args.query, args.vocabulary)
    /\ UNCHANGED <<args, calls>>

NextMatch == CallFindBestMatch \/ CallGetSuggestion

SpecMatch == InitMatch /\ [][NextMatch]_vars

\* ------------------------------------------------------------------------
\* Specification SpecSearch: one call of the search orchestrator
\* ------------------------------------------------------------------------

\* the records come with unique ids
WebsiteLists == DistinctSeqsUpTo(WebsitePool, MaxWebsites)

\* the vocabulary argument: not supplied, built from the records searched, or
\* a caller's own word list
VocabulariesFor(websites) ==
    {Null, buildVocabulary(websites), <<"React", "github">>}

InitSearch ==
    /\ pc = "start"
    /\ \E q \in SearchQueries, ws \in WebsiteLists :
          \E v \in VocabulariesFor(ws) :
              args = [query |-> q, websites |-> ws, vocabulary |-> v]
    /\ ret = Null
    /\ calls = <<>>

CallSmartSearch ==
    /\ pc = "start"
    /\ pc' = "smartSearch"
    /\ \E run \in {smartSearch(args.query, args.websites, args.vocabulary)} :
          ret' = run.result /\ calls' = run.calls
    /\ UNCHANGED args

\* getSuggestion is exported and takes a Set: it is called on the query and
\* the vocabulary when one was supplied
CallGetSuggestionOnQuery ==
    /\ pc = "start"
    /\ Supplied(args.vocabulary)
    /\ pc' = "getSuggestion"
    /\ ret' = getSuggestion(args.query, args.vocabulary)
    /\ UNCHANGED <<args, calls>>

NextSearch == CallSmartSearch \/ CallGetSuggestionOnQuery

SpecSearch == InitSearch /\ [][NextSearch]_vars

\* ------------------------------------------------------------------------
\* Specification SpecScore: one record scored, alone or by the search
\* ------------------------------------------------------------------------

InitScore ==
    /\ pc = "start"
    /\ args \in [query : ScoreQueries, website : ScoreWebsites]
    /\ ret = Null
    /\ calls = <<>>

CallCalculateScore ==
    /\ pc = "start"
    /\ pc' = "calculateScore"
    /\ ret' = calculateScore(args.query, args.website)
    /\ UNCHANGED <<args, calls>>

\* smartSearch on the list that holds the one record, with no vocabulary
CallSmartSearchOnRecord ==
    /\ pc = "start"
    /\ pc' = "smartSearch"
    /\ ret' = smartSearch(args.query, <<args.website>>, Null).result
    /\ UNCHANGED <<args, calls>>

NextScore == CallCalculateScore \/ CallSmartSearchOnRecord

SpecScore == InitScore /\ [][NextScore]_vars

\* ------------------------------------------------------------------------
\* Content recommender (recommender.ts)
\* ------------------------------------------------------------------------

\* the first position of s that holds one of the characters, Len(s) + 1 if none
FirstIndexOf(s, chars) ==
    LET found == {i \in 1..Len(s) : Char(s, i) \in chars}
    IN IF found = {} THEN Len(s) + 1 ELSE CHOOSE i \in found : \A k \in found : i <= k

\* the last position of s that holds one of the characters, 0 if none
LastIndexOf(s, chars) ==
    LET found == {i \in 1..Len(s) : Char(s, i) \in chars}
    IN IF found = {} THEN 0 ELSE CHOOSE i \in found : \A k \in found : k <= i

\* the schemes whose URLs always have a host
SpecialSchemes == {"http", "https", "ftp", "ws", "wss"}

LetterChars == CharsOf(LowerLetters) \cup CharsOf(UpperLetters)

DigitChars == CharsOf(Digits)

SchemeChars == LetterChars \cup DigitChars \cup {"+", "-", "."}

\* the characters tokenize keeps
AlnumOrSpaceChars == CharsOf(LowerLetters) \cup DigitChars \cup SpaceChars

\* characters a host may not hold
ForbiddenHostChars == {" ", "<", ">", "[", "]", "^", "|", "%"}

\* a URL's host and port, cut after the credentials: the hostname, or Null
\* when the URL parser fails (new URL throws)
HostnameOfHostPort(hostPort, lowered) ==
    LET colon == FirstIndexOf(hostPort, {":"})
        host == SubSeq(hostPort, 1, colon - 1)
        port == SubSeq(hostPort, colon + 1, Len(hostPort))
    IN IF \/ lowered /\ host = ""
          \/ \E i \in 1..Len(host) : Char(host, i) \in ForbiddenHostChars
          \/ \E i \in 1..Len(port) : Char(port, i) \notin DigitChars
       THEN Null
       ELSE IF lowered THEN toLowerCase(host) ELSE host

\* the hostname of what follows the slashes: the authority ends at the first
\* / \ ? or # (\ only in special schemes) and the credentials at the last @
HostnameOfAuthority(afterSlashes, special) ==
    LET ends == IF special THEN {"/", "\\", "?", "#"} ELSE {"/", "?", "#"}
        authority == SubSeq(afterSlashes, 1, FirstIndexOf(afterSlashes, ends) - 1)
    IN HostnameOfHostPort(SubSeq(authority, LastIndexOf(authority, {"@"}) + 1, Len(authority)),
                          special)

\* rest without its leading slashes and backslashes
SkipSlashes(rest) ==
    LET other == {i \in 1..Len(rest) : Char(rest, i) \notin {"/", "\\"}}
    IN IF other = {} THEN ""
       ELSE SubSeq(rest, CHOOSE i \in other : \A k \in other : i <= k, Len(rest))

\* new URL(url).hostname for a URL without a base: Null when the constructor
\* throws (no scheme, or a special scheme without a valid host). IPv6 and
\* numeric hosts, percent-encoding and non-ASCII domains are not modelled.
Hostname(url) ==
    LET s == IF url = Null THEN "undefined" ELSE Trim(url)
        colon == FirstIndexOf(s, {":"})
        scheme == toLowerCase(SubSeq(s, 1, colon - 1))
        rest == SubSeq(s, colon + 1, Len(s))
    IN IF \/ colon > Len(s)
          \/ colon = 1
          \/ Char(s, 1) \notin LetterChars
          \/ \E i \in 1..(colon - 1) : Char(s, i) \notin SchemeChars
       THEN Null
       ELSE IF scheme \in SpecialSchemes
       THEN HostnameOfAuthority(SkipSlashes(rest), TRUE)
       ELSE IF StartsWith(rest, "//")
       THEN HostnameOfAuthority(SubSeq(rest, 3, Len(rest)), FALSE)
       ELSE ""

\* String.prototype.replace with a string pattern: the first occurrence only
ReplaceFirst(s, pattern, replacement) ==
    LET found == {i \in 1..(Len(s) - Len(pattern) + 1) :
                     SubSeq(s, i, i + Len(pattern) - 1) = pattern}
        first == CHOOSE i \in found : \A k \in found : i <= k
    IN IF found = {} THEN s
       ELSE SubSeq(s, 1, first - 1) \o replacement
                \o SubSeq(s, first + Len(pattern), Len(s))

\* lines 9-15
getDomain(url) ==
    IF Hostname(url) = Null THEN "" ELSE ReplaceFirst(Hostname(url), "www.", "")

\* replace(/[^a-z0-9\s]/g, ' ')
MapNonAlnumToSpace(s) ==
    Concat([i \in 1..Len(s) |->
               IF Char(s, i) \in AlnumOrSpaceChars
               THEN Char(s, i) ELSE " "], 1, Len(s))

LongerThanTwo(word) == Len(word) > 2

\* lines 18-27: the Set of the words of a text
tokenize(text) ==
    IF text = "" \/ text = Null THEN {}
    ELSE Range(SelectSeq(SplitRuns(MapNonAlnumToSpace(toLowerCase(text)), SpaceChars),
                         LongerThanTwo))

\* jaccardSimilarity with the sizes of the two sets added up for the union
jaccardSimilarityUnionDoubleCounted(setA, setB) ==
    IF Cardinality(setA) = 0 /\ Cardinality(setB) = 0 THEN Frac(0, 1)
    ELSE Frac(Cardinality(setA \cap setB), Cardinality(setA) + Cardinality(setB))

\* lines 30-37
jaccardSimilarity(setA, setB) ==
    IF Cardinality(setA) = 0 /\ Cardinality(setB) = 0 THEN Frac(0, 1)
    ELSE Frac(Cardinality({x \in setA : x \in setB}), Cardinality(setA \cup setB))

\* Math.floor(similarity * weight)
RoundDownTimes(similarity, weight) ==
    (weight * similarity[1]) \div similarity[2]

\* Math.round(similarity * weight): the nearest integer, a half goes up
RoundTimes(similarity, weight) ==
    (2 * weight * similarity[1] + similarity[2]) \div (2 * similarity[2])

\* lines 90-96 and 102-108: the points of a similarity
SimilarityPoints(similarity, weight) ==
    IF FracLess(Frac(0, 1), similarity) THEN RoundTimes(similarity, weight) ELSE 0

\* lines 75-78
CategoryPoints(website, currentWebsite) ==
    IF website.category = currentWebsite.category THEN 5 ELSE 0

\* lines 81-85 without the test that the current domain is not empty
DomainPointsEmptyAllowed(websiteDomain, currentDomain) ==
    IF websiteDomain = currentDomain THEN 3 ELSE 0

\* lines 81-85
DomainPoints(websiteDomain, currentDomain) ==
    IF currentDomain # "" /\ websiteDomain = currentDomain THEN 3 ELSE 0

\* lines 99-110
DescriptionPoints(currentDescTokens, description) ==
    IF Cardinality(currentDescTokens) > 0
    THEN SimilarityPoints(jaccardSimilarity(currentDescTokens, tokenize(description)), 3)
    ELSE 0

\* lines 70-112: the score of one record against the current one
RelatedScore(website, currentWebsite) ==
    [website |-> website,
     score |-> CategoryPoints(website, currentWebsite)
               + DomainPoints(getDomain(website.url), getDomain(currentWebsite.url))
               + SimilarityPoints(jaccardSimilarity(tokenize(currentWebsite.title),
                                                    tokenize(website.title)), 4)
               + DescriptionPoints(tokenize(currentWebsite.description),
                                   website.description)]

\* the filter of line 69 without its test
KeepsEvery(website, currentWebsite) == TRUE

\* the filter of line 69
NotCurrent(website, currentWebsite) == website.id # currentWebsite.id

\* the filter of line 113
HasPositiveScore(item) == item.score > 0

\* lines 68-114: allWebsites.filter(...).map(...).filter(...).sort(...)
RelatedHeap(currentWebsite, heap) ==
    LET others == InOrder({i \in 1..Len(heap["allWebsites"]) :
                              NotCurrent(heap["allWebsites"][i], currentWebsite)})
        filtered == ArrayNew(heap, "allWebsites", "filter",
                             SubSeq([n \in 1..Len(others) |-> heap["allWebsites"][others[n]]],
                                    1, Len(others)))
        mapped == ArrayNew(filtered, "filter", "map",
                           [n \in 1..Len(filtered["filter"]) |->
                               RelatedScore(filtered["filter"][n], currentWebsite)])
        positive == ArrayNew(mapped, "map", "scoredWebsites",
                             SelectSeq(mapped["map"], HasPositiveScore))
    IN ArraySort(positive, "scoredWebsites")

\* lines 68-114: the scored records, filtered and sorted
RelatedScored(currentWebsite, allWebsites) ==
    RelatedHeap(currentWebsite, [allWebsites |-> allWebsites])["scoredWebsites"]

\* line 116: slice(0, limit), for limit >= 0, and the records of the items
RelatedSlice(scoredWebsites, limit) ==
    SubSeq([i \in 1..Min2(limit, Len(scoredWebsites)) |-> scoredWebsites[i].website],
           1, Min2(limit, Len(scoredWebsites)))

\* lines 59-117
findRelatedWebsites(currentWebsite, allWebsites, limit) ==
    RelatedSlice(RelatedScored(currentWebsite, allWebsites), limit)

\* ------------------------------------------------------------------------
\* Specification SpecJaccard: one call of jaccardSimilarity
\* ------------------------------------------------------------------------

JaccardTokens == {"react", "hooks", "guide", "learn"}

InitJaccard ==
    /\ pc = "start"
    /\ args \in [setA : SUBSET JaccardTokens, setB : SUBSET JaccardTokens]
    /\ ret = Null
    /\ calls = <<>>

CallJaccardSimilarity ==
    /\ pc = "start"
    /\ pc' = "jaccardSimilarity"
    /\ ret' = jaccardSimilarity(args.setA, args.setB)
    /\ UNCHANGED <<args, calls>>

NextJaccard == CallJaccardSimilarity

SpecJaccard == InitJaccard /\ [][NextJaccard]_vars

\* ------------------------------------------------------------------------
\* Specification SpecRelated: one call of the recommender
\* ------------------------------------------------------------------------

RelatedPool ==
    {Website("1", "React Hooks Guide", "https://www.github.com/a", "Dev",
             "learn react hooks", FALSE),
     Website("2", "React Guide", "https://github.com/b", "Dev", "", FALSE),
     Website("3", "Cooking Pasta", "not a url", "Food", "learn pasta", FALSE),
     Website("4", "Pasta", "", "Food", "Learn!", FALSE),
     Website("5", "Hooks", "HTTPS://GitHub.com/c", "Tools", "", FALSE)}

InitRelated ==
    /\ pc = "start"
    /\ args \in [currentWebsite : RelatedPool,
                 allWebsites : DistinctSeqsUpTo(RelatedPool, MaxWebsites),
                 limit : 0..MaxLimit]
    /\ ret = Null
    /\ calls = <<>>

CallFindRelatedWebsites ==
    /\ pc = "start"
    /\ pc' = "findRelatedWebsites"
    /\ ret' = findRelatedWebsites(args.currentWebsite, args.allWebsites, args.limit)
    /\ UNCHANGED <<args, calls>>

CallGetDomain ==
    /\ pc = "start"
    /\ pc' = "getDomain"
    /\ ret' = getDomain(args.currentWebsite.url)
    /\ UNCHANGED <<args, calls>>

NextRelated == CallFindRelatedWebsites \/ CallGetDomain

SpecRelated == InitRelated /\ [][NextRelated]_vars

\* ------------------------------------------------------------------------
\* Specification SpecDomain: the recommender on one candidate, the two
\* records having nothing in common but, at most, their addresses
\* ------------------------------------------------------------------------

DomainUrls ==
    {"https://www.example.com/a", "https://example.com", "https://docs.www.example.com",
     "https://docs.example.com", "http://awww.example.com", "https://aexample.com",
     "https://www.www.example.com", "not a url"}

\* a record with no title and no description, in a category of its own
DomainRecord(url) == Website(url, "", url, url, "", FALSE)

InitDomain ==
    /\ pc = "start"
    /\ \E target \in DomainUrls, other \in DomainUrls :
          args = [currentWebsite |-> DomainRecord(target),
                  allWebsites |-> <<DomainRecord(other)>>, limit |-> 1]
    /\ ret = Null
    /\ calls = <<>>

CallFindRelatedToOne ==
    /\ pc = "start"
    /\ pc' = "findRelatedWebsites"
    /\ ret' = findRelatedWebsites(args.currentWebsite, args.allWebsites, args.limit)
    /\ UNCHANGED <<args, calls>>

CallGetDomainOfCandidate ==
    /\ pc = "start"
    /\ pc' = "getDomain"
    /\ ret' = getDomain(args.allWebsites[1].url)
    /\ UNCHANGED <<args, calls>>

NextDomain == CallFindRelatedToOne \/ CallGetDomainOfCandidate

SpecDomain == InitDomain /\ [][NextDomain]_vars

\* ------------------------------------------------------------------------
\* Specification SpecWords: one call of stemWord or phoneticHash on a word
\* ------------------------------------------------------------------------

WordStems == {"kind", "Care", "walk", "na", "a", "hop", "React"}

WordEndings == Range(Suffixes) \cup {"", "bb", "pf", "mnr", "aeiou", "tdl"}

WordInputs == {""} \cup {stem \o ending : stem \in WordStems, ending \in WordEndings}

InitWords ==
    /\ pc = "start"
    /\ args \in [word : WordInputs]
    /\ ret = Null
    /\ calls = <<>>

CallStemWord ==
    /\ pc = "start"
    /\ pc' = "stemWord"
    /\ ret' = stemWord(args.word)
    /\ UNCHANGED <<args, calls>>

CallPhoneticHash ==
    /\ pc = "start"
    /\ pc' = "phoneticHash"
    /\ ret' = phoneticHash(args.word)
    /\ UNCHANGED <<args, calls>>

NextWords == CallStemWord \/ CallPhoneticHash

SpecWords == InitWords /\ [][NextWords]_vars

\* ------------------------------------------------------------------------
\* Specification SpecCalls: one call of an exported function on a list of
\* records, args holding the arguments as they are in memory
\* ------------------------------------------------------------------------

InitCalls ==
    /\ pc = "start"
    /\ \E q \in CallQueries, ws \in WebsiteLists, l \in {0, MaxLimit} :
          \E v \in {Null, buildVocabulary(ws)} :
              args = [query |-> q, websites |-> ws, vocabulary |-> v, limit |-> l]
    /\ ret = Null
    /\ calls = <<>>

\* smartSearch: line 998 returns on an empty query before any array is made
CallSmartSearchOnList ==
    /\ pc = "start"
    /\ pc' = "smartSearch"
    /\ ret' = smartSearch(args.query, args.websites, args.vocabulary).result
    /\ \E heap \in {IF Trim(args.query) = ""
                     THEN [websites |-> args.websites, vocabulary |-> args.vocabulary]
                     ELSE SearchHeap(Trim(args.query),
                                     [websites |-> args.websites,
                                      vocabulary |-> args.vocabulary])} :
          args' = [args EXCEPT !.websites = heap["websites"],
                               !.vocabulary = heap["vocabulary"]]
    /\ UNCHANGED calls

CallQuickSearch ==
    /\ pc = "start"
    /\ pc' = "quickSearch"
    /\ ret' = quickSearch(args.query, args.websites)
    /\ \E heap \in {quickSearchHeap(toLowerCase(Trim(args.query)),
                                     [websites |-> args.websites])} :
          args' = [args EXCEPT !.websites = heap["websites"]]
    /\ UNCHANGED calls

\* buildVocabulary reads the records and adds to the Set it has made (lines
\* 684, 699)
CallBuildVocabulary ==
    /\ pc = "start"
    /\ pc' = "buildVocabulary"
    /\ ret' = buildVocabulary(args.websites)
    /\ UNCHANGED <<args, calls>>

\* findRelatedWebsites for one of the records of the list
CallFindRelatedOnList ==
    /\ pc = "start"
    /\ pc' = "findRelatedWebsites"
    /\ \E currentWebsite \in Range(args.websites) :
          /\ ret' = findRelatedWebsites(currentWebsite, args.websites, args.limit)
          /\ \E heap \in {RelatedHeap(currentWebsite, [allWebsites |-> args.websites])} :
                args' = [args EXCEPT !.websites = heap["allWebsites"]]
    /\ UNCHANGED calls

NextCalls ==
    \/ CallSmartSearchOnList
    \/ CallQuickSearch
    \/ CallBuildVocabulary
    \/ CallFindRelatedOnList

SpecCalls == InitCalls /\ [][NextCalls]_vars

\* ------------------------------------------------------------------------
\* AI search (unnamed/part_003 searchWebsitesWithAI, Dashboard.tsx
\* filterWebsites)
\* ------------------------------------------------------------------------

\* how a block of code ends: it returns a value, throws an Error with a
\* message, or runs to its end with no return
Returns(value) == [ends |-> "return", value |-> value, message |-> ""]

Throws(message) == [ends |-> "throw", value |-> <<>>, message |-> message]

FallsThrough == [ends |-> "end", value |-> <<>>, message |-> ""]

\* part_003 lines 173-176
textSearch(query, websites) == smartSearch(query, websites, Null).result.websites

\* part_003 lines 40-42 and 114-116:
\* ids.map(id => websites.find(w => w.id === id)).filter(Boolean)
OrderedByIds(ids, websites) ==
    LET known == InOrder({i \in 1..Len(ids) : \E w \in Range(websites) : w.id = ids[i]})
    IN SubSeq([n \in 1..Len(known) |->
                  websites[CHOOSE k \in 1..Len(websites) :
                               /\ websites[k].id = ids[known[n]]
                               /\ \A j \in 1..(k - 1) : websites[j].id # ids[known[n]]]],
              1, Len(known))

\* line 45 without its test of the length
OrderedAsIs(ordered, fallback) == ordered

\* part_003 line 45: ordered.length > 0 ? ordered : textSearch(query, websites)
OrElseTextSearch(ordered, fallback) ==
    IF Len(ordered) > 0 THEN ordered ELSE fallback

\* part_003 lines 24-51: the request to /api/ai-search. fetch rejects
\* ("network"), the status is not ok ("http"), the body is not JSON
\* ("badjson"), or the body is read ("ok")
ServerRoute(server, websites, fallback) ==
    IF server.status = "network" THEN Throws("Failed to fetch")
    ELSE IF server.status = "http"
    THEN Throws(IF server.error # "" THEN server.error ELSE "Server returned 500")
    ELSE IF server.status = "badjson" THEN Throws("Unexpected token")
    ELSE IF server.error # "" THEN Throws(server.error)
    ELSE IF server.isArray
    THEN Returns(OrElseTextSearch(OrderedByIds(server.ids, websites), fallback))
    ELSE FallsThrough

\* part_003 lines 136-145: the message of the Error thrown for a failure of
\* the client-side model
ClientErrorMessage(message) ==
    (IF Includes(message, "API_KEY") THEN "Invalid or missing Gemini API key"
     ELSE IF Includes(message, "404") THEN "Gemini model not found or not available"
     ELSE IF Includes(message, "403")
     THEN "Gemini API access denied - check your API key permissions"
     ELSE "Client-side AI search failed") \o ": " \o message

\* part_003 lines 57-146: the client-side model. generateContent rejects
\* (client.error), or its text does not parse, or it parses to ids
ClientRoute(client, websites, fallback) ==
    LET tried == IF client.error # "" THEN Throws(client.error)
                 ELSE IF ~client.parses THEN Throws("Failed to parse AI response")
                 ELSE IF client.isArray /\ Len(OrderedByIds(client.ids, websites)) > 0
                 THEN Returns(OrderedByIds(client.ids, websites))
                 ELSE FallsThrough
    IN IF tried.ends # "throw" THEN tried
       ELSE IF Includes(tried.message, "429") THEN Returns(fallback)
       ELSE Throws(ClientErrorMessage(tried.message))

\* part_003 lines 12-165: the outer try; a route that ends with no return
\* leads to line 156, an Error to the catch of line 157
AiSearch(websites, hasKey, server, client, fallback) ==
    LET first == ServerRoute(server, websites, fallback)
        route == IF first.ends # "throw" THEN first
                 ELSE IF hasKey THEN ClientRoute(client, websites, fallback)
                 ELSE Returns(fallback)
    IN IF route.ends = "end" THEN Returns(fallback)
       ELSE IF route.ends = "throw"
               /\ (Includes(route.message, "429") \/ Includes(route.message, "rate limit"))
       THEN Returns(fallback)
       ELSE route

\* part_003 lines 3-166
searchWebsitesWithAI(query, websites, hasKey, server, client) ==
    IF Trim(query) = "" THEN Returns(websites)
    ELSE IF Len(websites) = 0 THEN Returns(<<>>)
    ELSE AiSearch(websites, hasKey, server, client, textSearch(query, websites))

IsPinned(website) == website.is_pinned

\* Dashboard.tsx lines 259-271: the records of the selected category
\* ('Reminders' is not among the categories of the model)
FilterByCategory(websites, selectedCategory) ==
    LET InCategory(website) == website.category = selectedCategory
    IN IF selectedCategory = "all" THEN websites
       ELSE IF selectedCategory = "Favorites" THEN SelectSeq(websites, IsPinned)
       ELSE SelectSeq(websites, InCategory)

\* Dashboard.tsx lines 274-309: the state after the search, for the
\* outcome ai of searchWebsitesWithAI and the result local of smartSearch
FilteredState(query, filtered, useAI, ai, local) ==
    IF Trim(query) = ""
    THEN [state |-> [filteredWebsites |-> filtered, searchSuggestion |-> Null,
                     isSearchingAI |-> FALSE],
          calls |-> <<"setFilteredWebsites">>]
    ELSE IF ~useAI
    THEN [state |-> [filteredWebsites |-> local.websites,
                     searchSuggestion |-> local.suggestion, isSearchingAI |-> FALSE],
          calls |-> <<"smartSearch", "setFilteredWebsites">>]
    ELSE IF ai.ends = "throw"
    THEN [state |-> [filteredWebsites |-> local.websites,
                     searchSuggestion |-> local.suggestion, isSearchingAI |-> FALSE],
          calls |-> <<"searchWebsitesWithAI", "toast.error", "smartSearch",
                      "setFilteredWebsites">>]
    ELSE [state |-> [filteredWebsites |-> ai.value, searchSuggestion |-> Null,
                     isSearchingAI |-> FALSE],
          calls |-> <<"searchWebsitesWithAI", "setFilteredWebsites">>]

\* Dashboard.tsx lines 256-310
filterWebsites(query, websites, vocabulary, selectedCategory, useAI, hasKey, server, client) ==
    LET filtered == FilterByCategory(websites, selectedCategory)
    IN FilteredState(query, filtered, useAI,
                     searchWebsitesWithAI(query, filtered, hasKey, server, client),
                     smartSearch(query, filtered, vocabulary).result)

\* ------------------------------------------------------------------------
\* Specification SpecDashboard: one search of the Dashboard
\* ------------------------------------------------------------------------

ServerReply(status, error, isArray, ids) ==
    [status |-> status, error |-> error, isArray |-> isArray, ids |-> ids]

\* what the client sees of /api/ai-search (api/ai-search.js: 405, 400 and 500
\* with an error, 200 with ids)
ServerReplies ==
    {ServerReply("network", "", FALSE, <<>>),
     ServerReply("http", "Gemini API rate limit exceeded", FALSE, <<>>),
     ServerReply("http", "", FALSE, <<>>),
     ServerReply("badjson", "", FALSE, <<>>),
     ServerReply("ok", "Gemini API error", FALSE, <<>>),
     ServerReply("ok", "", FALSE, <<>>),
     ServerReply("ok", "", TRUE, <<>>),
     ServerReply("ok", "", TRUE, <<"zz">>),
     ServerReply("ok", "", TRUE, <<"2", "zz", "1">>)}

ClientReply(error, parses, isArray, ids) ==
    [error |-> error, parses |-> parses, isArray |-> isArray, ids |-> ids]

\* what generateContent gives the client-side model code
ClientReplies ==
    {ClientReply("429 quota", FALSE, FALSE, <<>>),
     ClientReply("rate limit", FALSE, FALSE, <<>>),
     ClientReply("API_KEY", FALSE, FALSE, <<>>),
     ClientReply("", FALSE, FALSE, <<>>),
     ClientReply("", TRUE, FALSE, <<>>),
     ClientReply("", TRUE, TRUE, <<>>),
     ClientReply("", TRUE, TRUE, <<"5", "1">>)}

DashboardQueries == {" React ", "recat", " \t "}

\* the records loaded: lists of full length in the orders that start with
\* record "1", and the empty list
DashboardLists ==
    {<<>>} \cup {ws \in DistinctSeqsOfLen(WebsitePool, MaxWebsites) : ws[1].id = "1"}

\* with no client-side key the client-side model is never called
Environments ==
    {[hasKey |-> TRUE, server |-> sr, client |-> cr] :
        sr \in ServerReplies, cr \in ClientReplies}
    \cup {[hasKey |-> FALSE, server |-> sr, client |-> ClientReply("", FALSE, FALSE, <<>>)] :
            sr \in ServerReplies}

InitDashboard ==
    /\ pc = "start"
    /\ \E q \in DashboardQueries, ws \in DashboardLists, env \in Environments,
          c \in {"all", "Favorites", "Dev"}, ai \in BOOLEAN :
          /\ ~ai => env.hasKey = FALSE /\ env.server.status = "network"
          /\ args = [query |-> q, websites |-> ws, vocabulary |-> buildVocabulary(ws),
                     selectedCategory |-> c, useAI |-> ai, hasKey |-> env.hasKey,
                     server |-> env.server, client |-> env.client]
    /\ ret = [filteredWebsites |-> <<>>, searchSuggestion |-> Null,
              isSearchingAI |-> FALSE]
    /\ calls = <<>>

CallFilterWebsites ==
    /\ pc = "start"
    /\ pc' = "filterWebsites"
    /\ \E run \in {filterWebsites(args.query, args.websites, args.vocabulary,
                                  args.selectedCategory, args.useAI, args.hasKey,
                                  args.server, args.client)} :
          ret' = run.state /\ calls' = run.calls
    /\ UNCHANGED args

NextDashboard == CallFilterWebsites

SpecDashboard == InitDashboard /\ [][NextDashboard]_vars

\* ------------------------------------------------------------------------
\* Specification SpecSession: the Dashboard between mount and unmount, its
\* handlers, effects and the AI searches in flight
\* ------------------------------------------------------------------------

\* the AI searches started in one session
MaxAiCalls == 2

SessionQueries == {"", "react", "recat"}

SessionCategories == {"all", "Dev"}

SessionRecord(id) == CHOOSE w \in WebsitePool : w.id = id

\* what fetchWebsites can load
SessionLists == {<<SessionRecord("3"), SessionRecord("2"), SessionRecord("1")>>}

\* what /api/ai-search answers to a search in flight (no client-side key)
SessionReplies ==
    {ServerReply("ok", "", TRUE, <<"2", "zz", "1">>), ServerReply("network", "", FALSE, <<>>)}

\* smartSearch as filterWebsites calls it (lines 290 and 300) in a render
\* with these records and this category, for each query of the session
SessionSearches ==
    [query \in SessionQueries \ {""}, websites \in {<<>>} \cup SessionLists,
     selectedCategory \in SessionCategories |->
        smartSearch(query, FilterByCategory(websites, selectedCategory),
                    buildVocabulary(websites)).result]

\* searchWebsitesWithAI as filterWebsites calls it (line 282) in such a
\* render, for each answer of the server
SessionAiSearches ==
    [query \in SessionQueries \ {""}, websites \in {<<>>} \cup SessionLists,
     selectedCategory \in SessionCategories, server \in SessionReplies |->
        searchWebsitesWithAI(query, FilterByCategory(websites, selectedCategory), FALSE,
                             server, ClientReply("", FALSE, FALSE, <<>>))]

\* the values a render closes over: filterWebsites reads websites and
\* selectedCategory of the render that made it (lines 256-259), vocabulary is
\* that render's memo (line 48)
RenderOf(state) ==
    [websites |-> state.websites, selectedCategory |-> state.selectedCategory,
     isAIModeEnabled |-> state.isAIModeEnabled]

\* setFilteredWebsites / setSearchSuggestion by a search: every search still
\* waiting is from now on an older one
Shown(w, filteredWebsites, searchSuggestion) ==
    [w EXCEPT !.state.filteredWebsites = filteredWebsites,
              !.state.searchSuggestion = searchSuggestion,
              !.args.superseded = w.args.pending,
              !.args.latestShown = TRUE]

\* lines 256-310 up to the await: filterWebsites(query, useAI) of the render
\* "render"; what smartSearch and searchWebsitesWithAI return for the
\* searches of the session is computed once and kept in args
StartFilterWebsites(w, render, query, useAI) ==
    LET filtered == FilterByCategory(render.websites, render.selectedCategory)
    IN IF Trim(query) = "" THEN Shown(w, filtered, Null)
       ELSE IF ~useAI
       THEN Shown(w, w.args.smartSearch[query, render.websites,
                                        render.selectedCategory].websites,
                     w.args.smartSearch[query, render.websites,
                                        render.selectedCategory].suggestion)
       ELSE [state |-> [w.state EXCEPT !.isSearchingAI = TRUE, !.searchSuggestion = Null],
             args |-> [w.args EXCEPT !.pending = @ \cup {[id |-> Len(w.calls) + 1,
                                                          query |-> query,
                                                          filtered |-> filtered,
                                                          render |-> render]},
                                     !.superseded = w.args.pending,
                                     !.latestShown = FALSE],
             calls |-> Append(w.calls, "searchWebsitesWithAI")]

\* lines 137-148, run after a render in which websites, selectedCategory,
\* activeSearchQuery or dataLoaded changed
FilterEffect(w, changed) ==
    IF ~changed THEN w
    ELSE IF w.state.dataLoaded
    THEN StartFilterWebsites(w, RenderOf(w.state), w.state.activeSearchQuery,
                             w.state.isAIModeEnabled)
    ELSE [w EXCEPT !.state.filteredWebsites = w.state.websites]

\* lines 111-135, run after a render in which searchQuery or isAIModeEnabled
\* changed: the timer pending, if any, with the values its callback closes
\* over; handleSearch (useCallback, line 376) is made anew in the same
\* renders
DebounceEffect(w, changed) ==
    IF ~changed THEN w
    ELSE [w EXCEPT !.args.timer =
                       IF w.state.isAIModeEnabled THEN {}
                       ELSE {[searchQuery |-> w.state.searchQuery,
                              render |-> RenderOf(w.state)]},
                   !.args.handleSearch = RenderOf(w.state)]

World == [state |-> ret, args |-> args, calls |-> calls]

\* the step to the world w, taken by the handler named
Becomes(handler, w) ==
    /\ Len(w.calls) <= MaxAiCalls
    /\ pc' = handler
    /\ ret' = w.state
    /\ args' = w.args
    /\ calls' = w.calls

\* lines 25-39: useState, and the first run of the two effects
InitSession ==
    /\ pc = "mounted"
    /\ ret = [websites |-> <<>>, filteredWebsites |-> <<>>, dataLoaded |-> FALSE,
              selectedCategory |-> "all", searchQuery |-> "", activeSearchQuery |-> "",
              isSearchingAI |-> FALSE, searchSuggestion |-> Null,
              isAIModeEnabled |-> FALSE]
    /\ args = [timer |-> {[searchQuery |-> "", render |-> RenderOf(ret)]},
               handleSearch |-> RenderOf(ret), pending |-> {}, superseded |-> {},
               latestShown |-> TRUE, smartSearch |-> SessionSearches,
               searchWebsitesWithAI |-> SessionAiSearches]
    /\ calls = <<>>

InSession ==
    pc \in {"mounted", "onChange", "setTimeout", "handleSearch", "onCategorySelect",
            "fetchWebsites", "onAIModeToggle", "onSuggestionClick", "onLogoClick",
            "searchWebsitesWithAI"}

\* line 655: a keystroke
OnChange ==
    /\ InSession
    /\ \E q \in SessionQueries \ {ret.searchQuery} :
          Becomes("onChange",
                  DebounceEffect([World EXCEPT !.state.searchQuery = q], TRUE))

\* lines 124-127: the debounce timer fires
TimerFires ==
    /\ InSession
    /\ \E timer \in args.timer :
          \E w \in {StartFilterWebsites(
                       [World EXCEPT !.state.activeSearchQuery = timer.searchQuery,
                                     !.args.timer = {}],
                       timer.render, timer.searchQuery,
                       timer.render.isAIModeEnabled)} :
             Becomes("setTimeout",
                     FilterEffect(w, timer.searchQuery # ret.activeSearchQuery))

\* lines 362-376: Enter or the search button
HandleSearch ==
    /\ InSession
    /\ \E w \in {StartFilterWebsites(
                     [World EXCEPT !.state.activeSearchQuery = Trim(ret.searchQuery)],
                     args.handleSearch, Trim(ret.searchQuery),
                     ret.isAIModeEnabled)} :
          Becomes("handleSearch",
                  FilterEffect(w, Trim(ret.searchQuery) # ret.activeSearchQuery))

\* line 592
OnCategorySelect ==
    /\ InSession
    /\ \E c \in SessionCategories \ {ret.selectedCategory} :
          Becomes("onCategorySelect",
                  FilterEffect([World EXCEPT !.state.selectedCategory = c], TRUE))

\* lines 198-223: the records arrive (a new array every time, line 209), or
\* the request fails
FetchWebsites ==
    /\ InSession
    /\ \/ \E data \in SessionLists :
             \E w \in {FilterEffect([World EXCEPT !.state.websites = data], TRUE)} :
                Becomes("fetchWebsites",
                        FilterEffect([w EXCEPT !.state.dataLoaded = TRUE],
                                     ~ret.dataLoaded))
       \/ /\ ~ret.dataLoaded
          /\ Becomes("fetchWebsites",
                     FilterEffect([World EXCEPT !.state.dataLoaded = TRUE], TRUE))

\* line 666
OnAIModeToggle ==
    /\ InSession
    /\ Becomes("onAIModeToggle",
               DebounceEffect([World EXCEPT !.state.isAIModeEnabled = ~@], TRUE))

\* lines 660-664
OnSuggestionClick ==
    /\ InSession
    /\ ret.searchSuggestion # Null
    /\ \E w \in {StartFilterWebsites(
                     [World EXCEPT !.state.searchQuery = ret.searchSuggestion,
                                   !.state.activeSearchQuery = ret.searchSuggestion],
                     RenderOf(ret), ret.searchSuggestion, FALSE)} :
          Becomes("onSuggestionClick",
                  FilterEffect(DebounceEffect(w, ret.searchSuggestion # ret.searchQuery),
                               ret.searchSuggestion # ret.activeSearchQuery))

\* lines 509-512
OnLogoClick ==
    /\ InSession
    /\ ret.selectedCategory # "all" \/ ret.searchQuery # ""
    /\ \E w \in {[World EXCEPT !.state.selectedCategory = "all",
                               !.state.searchQuery = ""]} :
          Becomes("onLogoClick",
                  FilterEffect(DebounceEffect(w, ret.searchQuery # ""),
                               ret.selectedCategory # "all"))

\* lines 281-309: the await of a search in flight ends
AiSearchCompletes ==
    /\ InSession
    /\ \E call \in args.pending, server \in SessionReplies :
          LET ai == args.searchWebsitesWithAI[call.query, call.render.websites,
                                              call.render.selectedCategory, server]
              local == args.smartSearch[call.query, call.render.websites,
                                        call.render.selectedCategory]
              after == FilteredState(call.query, call.filtered, TRUE, ai, local).state
              searchSuggestion == IF ai.ends = "throw" THEN after.searchSuggestion
                                  ELSE ret.searchSuggestion
          IN Becomes("searchWebsitesWithAI",
                     [World EXCEPT
                         !.state.isSearchingAI = FALSE,
                         !.state.searchSuggestion = searchSuggestion,
                         !.state.filteredWebsites = after.filteredWebsites,
                         !.args.pending = @ \ {call},
                         !.args.superseded = @ \ {call},
                         !.args.latestShown =
                             \/ call \notin args.superseded
                             \/ /\ args.latestShown
                                /\ after.filteredWebsites = ret.filteredWebsites
                                /\ searchSuggestion = ret.searchSuggestion])

NextSession ==
    \/ OnChange
    \/ TimerFires
    \/ HandleSearch
    \/ OnCategorySelect
    \/ FetchWebsites
    \/ OnAIModeToggle
    \/ OnSuggestionClick
    \/ OnLogoClick
    \/ AiSearchCompletes

SpecSession == InitSession /\ [][NextSession]_vars

\* ------------------------------------------------------------------------
\* Reference definitions used to state the properties
\* ------------------------------------------------------------------------

\* the unit-cost insert / delete / substitute edit distance, by its defining
\* recursion on the first characters
RECURSIVE EditDistance(_, _)
EditDistance(a, b) ==
    IF Len(a) = 0 THEN Len(b)
    ELSE IF Len(b) = 0 THEN Len(a)
    ELSE LET ta == SubSeq(a, 2, Len(a))
             tb == SubSeq(b, 2, Len(b))
             cost == IF Char(a, 1) = Char(b, 1) THEN 0 ELSE 1
         IN Min3(EditDistance(ta, b) + 1,
                 EditDistance(a, tb) + 1,
                 EditDistance(ta, tb) + cost)

\* ------------------------------------------------------------------------
\* C5
\* ------------------------------------------------------------------------

\* C5: for all strings a, b (empty ones included) and every maxDistance >= 0,
\* levenshteinDistance(a, b, maxDistance) is the edit distance of a and b when
\* that distance is <= maxDistance and Infinity otherwise, so it never returns
\* a finite value greater than maxDistance.
C5_CappedEditDistance ==
    pc = "levenshteinDistance" =>
        LET d == EditDistance(args.a, args.b)
        IN ret = IF d <= args.maxDistance THEN d ELSE Infinity

\* ------------------------------------------------------------------------
\* C6
\* ------------------------------------------------------------------------

\* C6: levenshteinDistance is symmetric: the value returned for (a, b,
\* maxDistance) is the value the function returns for (b, a, maxDistance),
\* Infinity included.
C6_Symmetric ==
    pc = "levenshteinDistance" =>
        ret = levenshteinDistance(args.b, args.a, args.maxDistance)

\* a call on two different strings of equal length (no swap) that is pruned to
\* Infinity
C6_Witness ==
    /\ pc = "levenshteinDistance"
    /\ args.a # args.b
    /\ Len(args.a) = Len(args.b)
    /\ Len(args.a) >= 2
    /\ ret = Infinity

\* ------------------------------------------------------------------------
\* C7
\* ------------------------------------------------------------------------

\* C7: for non-empty a, b, stringSimilarity(a, b) lies in [0, 1] and equals
\* 1 - d/maxLen with d the true edit distance of the lowercased strings and
\* maxLen the longer length; it is 1 for equal strings and for strings that
\* differ only in case.
C7_Similarity ==
    (pc = "stringSimilarity" /\ Len(args.a) > 0 /\ Len(args.b) > 0) =>
        LET maxLen == Max2(Len(args.a), Len(args.b))
            d == EditDistance(toLowerCase(args.a), toLowerCase(args.b))
        IN /\ FracLeq(Frac(0, 1), ret) /\ FracLeq(ret, Frac(1, 1))
           /\ ret[2] > 0
           /\ FracEq(ret, Frac(maxLen - d, maxLen))
           /\ (toLowerCase(args.a) = toLowerCase(args.b) => FracEq(ret, Frac(1, 1)))

\* two different strings that differ only in case got similarity 1
C7_Witness ==
    /\ pc = "stringSimilarity"
    /\ args.a # args.b
    /\ Len(args.a) >= 2
    /\ toLowerCase(args.a) = toLowerCase(args.b)
    /\ FracEq(ret, Frac(1, 1))

\* ------------------------------------------------------------------------
\* C8
\* ------------------------------------------------------------------------

\* the vocabulary words findBestMatch compares the word with
Candidates(word, vocabulary) ==
    {i \in 1..Len(vocabulary) : Abs(Len(word) - Len(vocabulary[i])) <= 2}

\* similarity of the word to the i-th vocabulary word, with the 0.1 boost when
\* the phonetic hashes agree, stated from stringSimilarity and phoneticHash
Adjusted(word, vocabulary, i) ==
    LET sim == stringSimilarity(word, vocabulary[i])
    IN IF phoneticHash(word) = phoneticHash(vocabulary[i])
       THEN <<10 * sim[1] + sim[2], 10 * sim[2]>> ELSE sim

\* C8: findBestMatch(word, vocabulary) is null when the word is in the
\* vocabulary; otherwise it is the first, in iteration order, of the words
\* within length difference 2 whose adjusted similarity is maximal, provided
\* that similarity is strictly above 0.6, and null when no candidate is above
\* 0.6.
C8_BestMatch ==
    pc = "findBestMatch" =>
        LET word == args.query
            voc == args.vocabulary
            cand == Candidates(word, voc)
            good == {i \in cand : 10 * Adjusted(word, voc, i)[1] > 6 * Adjusted(word, voc, i)[2]}
        IN IF word \in Range(voc) \/ good = {}
           THEN ret = Null
           ELSE \E i \in good :
                   /\ ret = voc[i]
                   /\ \A k \in cand : FracLeq(Adjusted(word, voc, k), Adjusted(word, voc, i))
                   /\ \A k \in cand : k < i => FracLess(Adjusted(word, voc, k), Adjusted(word, voc, i))

\* a correction was chosen among two candidates that tie on adjusted similarity
C8_Witness ==
    /\ pc = "findBestMatch"
    /\ ret \notin {Null, ""}
    /\ \E i, k \in Candidates(args.query, args.vocabulary) :
          /\ i < k
          /\ ret = args.vocabulary[i]
          /\ FracEq(Adjusted(args.query, args.vocabulary, i),
                    Adjusted(args.query, args.vocabulary, k))

\* ------------------------------------------------------------------------
\* C9
\* ------------------------------------------------------------------------

\* C9: findBestMatch("recat", V) is "react" for every vocabulary V that holds
\* "react", does not hold "recat", and holds no other word within length
\* difference 2 whose adjusted similarity to "recat" is at least that of
\* "react".
C9_RecatReact ==
    (/\ pc = "findBestMatch"
     /\ args.query = "recat"
     /\ "react" \in Range(args.vocabulary)
     /\ "recat" \notin Range(args.vocabulary)
     /\ LET voc == args.vocabulary
            r == CHOOSE i \in 1..Len(voc) : voc[i] = "react"
        IN \A k \in Candidates("recat", voc) :
              k # r => FracLess(Adjusted("recat", voc, k), Adjusted("recat", voc, r)))
    => ret = "react"

\* "react" is returned although another, weaker candidate comes first
C9_Witness ==
    /\ pc = "findBestMatch"
    /\ args.query = "recat"
    /\ Len(args.vocabulary) >= 2
    /\ args.vocabulary[1] = "reach"
    /\ "react" \in Range(args.vocabulary)
    /\ EditDistance("recat", "react") = 2
    /\ ret = "react"

\* ------------------------------------------------------------------------
\* C1
\* ------------------------------------------------------------------------

\* the total calculateScore gives a record for the query of the call
ScoreOf(website) == Scored(Trim(args.query), website).score

\* position of a record in the input list (ids are unique)
InputIndex(website) ==
    CHOOSE k \in 1..Len(args.websites) : args.websites[k].id = website.id

NonEmptySearch == pc = "smartSearch" /\ Trim(args.query) # ""

\* C1: for a query that is not empty after trim, smartSearch returns exactly
\* the input records whose score is >= 150: none below 150, none at or above
\* 150 dropped, each at most once, and nothing that is not in the input.
C1_ExactlyAboveThreshold ==
    NonEmptySearch =>
        LET out == ret.websites
        IN /\ \A i \in 1..Len(out) :
                 out[i] \in Range(args.websites) /\ ScoreOf(out[i]) >= 150
           /\ \A k \in 1..Len(args.websites) :
                 ScoreOf(args.websites[k]) >= 150 => args.websites[k] \in Range(out)
           /\ \A i, j \in 1..Len(out) : i # j => out[i] # out[j]

\* a record scoring exactly 150 was returned and one scoring between 1 and 149
\* was not
C1_Witness ==
    /\ NonEmptySearch
    /\ \E i \in 1..Len(ret.websites) : ScoreOf(ret.websites[i]) = 150
    /\ \E k \in 1..Len(args.websites) :
          /\ ScoreOf(args.websites[k]) > 0
          /\ ScoreOf(args.websites[k]) < 150
          /\ args.websites[k] \notin Range(ret.websites)

\* ------------------------------------------------------------------------
\* C2
\* ------------------------------------------------------------------------

\* C2: for a non-empty query the returned sequence is sorted non-increasing by
\* score, and returned records of equal score keep their relative input order.
C2_SortedStable ==
    NonEmptySearch =>
        \A i, j \in 1..Len(ret.websites) :
            i < j =>
                /\ ScoreOf(ret.websites[i]) >= ScoreOf(ret.websites[j])
                /\ (ScoreOf(ret.websites[i]) = ScoreOf(ret.websites[j])
                       => InputIndex(ret.websites[i]) < InputIndex(ret.websites[j]))

\* three records were returned, two of them tied, from an input in which a
\* lower score came before a higher one
C2_Witness ==
    /\ NonEmptySearch
    /\ Len(ret.websites) = 3
    /\ ScoreOf(ret.websites[1]) = ScoreOf(ret.websites[2])
    /\ ScoreOf(ret.websites[2]) > ScoreOf(ret.websites[3])
    /\ ret.websites[3] = args.websites[1]

\* ------------------------------------------------------------------------
\* C3
\* ------------------------------------------------------------------------

\* C3: for a query that is empty or only whitespace, smartSearch returns the
\* input records, all of them and in input order, with suggestion null, whether
\* or not a vocabulary was supplied; the corrector is not consulted.
C3_EmptyQueryPassThrough ==
    (pc = "smartSearch" /\ Trim(args.query) = "") =>
        /\ ret.websites = args.websites
        /\ ret.suggestion = Null
        /\ calls = <<>>

\* a whitespace-only query with a vocabulary, on a list that scoring the empty
\* string would have reordered
C3_Witness ==
    /\ pc = "smartSearch"
    /\ args.query # ""
    /\ Trim(args.query) = ""
    /\ Supplied(args.vocabulary)
    /\ Len(args.websites) >= 2
    /\ Scored("", args.websites[1]).score < Scored("", args.websites[2]).score
    /\ ret.websites = args.websites

\* ------------------------------------------------------------------------
\* C4
\* ------------------------------------------------------------------------

\* C4: smartSearch calls getSuggestion, and returns a non-null suggestion, only
\* when a vocabulary was supplied and fewer than 3 records passed the 150-point
\* filter; with 3 or more, or with no vocabulary, no call is made and the
\* suggestion is null.
C4_NoSpeculativeCorrection ==
    pc = "smartSearch" =>
        LET survived == {k \in 1..Len(args.websites) : ScoreOf(args.websites[k]) >= 150}
        IN (calls # <<>> \/ ret.suggestion # Null) =>
               /\ Supplied(args.vocabulary)
               /\ Cardinality(survived) < 3

\* three records were found for a misspelt query the corrector would have
\* corrected, and no suggestion was made
C4_Witness ==
    /\ NonEmptySearch
    /\ Supplied(args.vocabulary)
    /\ Len(ret.websites) >= 3
    /\ getSuggestion(Trim(args.query), args.vocabulary) # Null
    /\ calls = <<>>
    /\ ret.suggestion = Null

\* ------------------------------------------------------------------------
\* C10
\* ------------------------------------------------------------------------

\* phrase is the tokens of the query, in order and separated by single spaces,
\* with every token findBestMatch corrects replaced by its correction, and at
\* least one token is corrected
IsCorrectedPhrase(phrase, query, vocabulary) ==
    LET words == extractWords(query)
        tokens == SplitEach(phrase, {" "})
    IN /\ Len(tokens) = Len(words)
       /\ \E i \in 1..Len(words) : findBestMatch(words[i], vocabulary) # Null
       /\ \A i \in 1..Len(words) :
             tokens[i] = IF findBestMatch(words[i], vocabulary) # Null
                         THEN findBestMatch(words[i], vocabulary) ELSE words[i]

\* C10: getSuggestion returns a phrase if and only if findBestMatch corrected
\* at least one token of the query; the phrase is the query's tokens in order,
\* joined by single spaces, corrected tokens replaced and the others unchanged;
\* and a suggestion smartSearch reports never normalizes to the same string as
\* the trimmed query.
C10_Suggestion ==
    /\ pc = "getSuggestion" =>
          /\ ret # Null <=>
                \E i \in 1..Len(extractWords(args.query)) :
                    findBestMatch(extractWords(args.query)[i], args.vocabulary) # Null
          /\ ret # Null => IsCorrectedPhrase(ret, args.query, args.vocabulary)
    /\ (pc = "smartSearch" /\ ret.suggestion # Null) =>
          /\ IsCorrectedPhrase(ret.suggestion, Trim(args.query), args.vocabulary)
          /\ normalizeText(ret.suggestion) # normalizeText(Trim(args.query))

\* smartSearch reported a phrase with one corrected and one unchanged token
C10_Witness ==
    /\ pc = "smartSearch"
    /\ ret.suggestion # Null
    /\ calls # <<>>
    /\ LET words == extractWords(args.query)
           tokens == SplitEach(ret.suggestion, {" "})
       IN /\ Len(words) = 2
          /\ Len(tokens) = 2
          /\ tokens[1] # words[1]
          /\ tokens[2] = words[2]

\* ------------------------------------------------------------------------
\* C11
\* ------------------------------------------------------------------------

\* the whitespace-separated words of a text, lowercased
WordsOf(text) == SplitRuns(Trim(toLowerCase(text)), SpaceChars)

\* the query is one word of at least 2 characters and that word is one of the
\* words of the record's title
SingleWordOfTitle ==
    /\ Len(WordsOf(args.query)) = 1
    /\ Len(WordsOf(args.query)[1]) >= 2
    /\ WordsOf(args.query)[1] \in Range(WordsOf(args.website.title))

\* C11: for a single-word query of length >= 2 that is an exact word of the
\* record's title, calculateScore gives both the 1000-point full-query award
\* and the 500-point per-term award, so the score is at least 1500, and
\* smartSearch returns the record.
C11_AdditiveTitleMatch ==
    /\ (pc = "calculateScore" /\ SingleWordOfTitle) =>
           /\ ret.score >= 1500
           /\ "title-exact-word" \in Range(ret.matchedFields)
           /\ "title-word" \in Range(ret.matchedFields)
    /\ (pc = "smartSearch" /\ SingleWordOfTitle) => ret.websites = <<args.website>>

\* ------------------------------------------------------------------------
\* C12
\* ------------------------------------------------------------------------

\* the terms of a query: its whitespace-separated words of length >= 2
TermsOf(query) == SelectSeq(WordsOf(query), AtLeastTwo)

\* the address of a record cut into its parts, as the scoring does
UrlPartsOf(website) ==
    SelectSeq(SplitEach(StripScheme(toLowerCase(website.url)), UrlSeparators), LongerThanOne)

\* the term has a per-term match in the record: in the title (exact word,
\* prefix of a word, or fuzzy for terms and words of length >= 4), in the
\* description (as a word) or in the address (a part that starts with it)
TermMatchesRecord(term, website) ==
    LET titleWords == SelectSeq(WordsOf(website.title), LongerThanOne)
    IN \/ \E i \in 1..Len(titleWords) :
             \/ StartsWith(titleWords[i], term)
             \/ /\ Len(term) >= 4
                /\ Len(titleWords[i]) >= 4
                /\ LET sim == stringSimilarity(term, titleWords[i])
                   IN 100 * sim[1] >= 75 * sim[2]
       \/ isWordMatch(term, toLowerCase(website.description))
       \/ \E part \in Range(UrlPartsOf(website)) : StartsWith(part, term)

AllTermsMatch(query, website) ==
    \A i \in 1..Len(TermsOf(query)) : TermMatchesRecord(TermsOf(query)[i], website)

\* the points of the per-term awards of one term in a record
TermPoints(term, website) ==
    SumPoints(TermAwards(term, SelectSeq(WordsOf(website.title), LongerThanOne),
                         toLowerCase(website.description), UrlPartsOf(website)))

\* the points of the full-query awards of a query in a record
FullQueryPoints(query, website) ==
    SumPoints(FullQueryAwards(Trim(toLowerCase(query)), website.title,
                              toLowerCase(website.title), toLowerCase(website.description),
                              toLowerCase(website.category), UrlPartsOf(website)))

RECURSIVE SumTermPoints(_, _)
SumTermPoints(terms, website) ==
    IF Len(terms) = 0 THEN 0
    ELSE TermPoints(terms[1], website) + SumTermPoints(Tail(terms), website)

\* what a score holds beyond the awards and the pinned boost
BonusIn(score, query, website) ==
    (IF website.is_pinned /\ score > 0 THEN score - PINNED_BOOST ELSE score)
        - FullQueryPoints(query, website) - SumTermPoints(TermsOf(query), website)

\* two records differ, for a query, only in which terms match: same full-query
\* points, same pin flag, and the terms that match in the second earn the same
\* points in the first
SameOtherFactors(query, first, second) ==
    /\ FullQueryPoints(query, first) = FullQueryPoints(query, second)
    /\ first.is_pinned = second.is_pinned
    /\ \A i \in 1..Len(TermsOf(query)) :
          TermMatchesRecord(TermsOf(query)[i], second) =>
              TermPoints(TermsOf(query)[i], first) = TermPoints(TermsOf(query)[i], second)

\* C12: calculateScore adds the 200-point all-terms bonus exactly when the
\* query has more than one term and every term has a per-term match in the
\* record, never for a one-term query or when some term matched nothing; and
\* of two records that differ only in which terms match, the one where all
\* terms match scores strictly higher than one where some term does not.
C12_AllTermsBonus ==
    pc = "calculateScore" =>
        /\ BonusIn(ret.score, args.query, args.website) =
               IF Len(TermsOf(args.query)) > 1 /\ AllTermsMatch(args.query, args.website)
               THEN 200 ELSE 0
        /\ \A other \in ScoreWebsites :
               (/\ Len(TermsOf(args.query)) > 1
                /\ AllTermsMatch(args.query, args.website)
                /\ ~AllTermsMatch(args.query, other)
                /\ SameOtherFactors(args.query, args.website, other))
               => ret.score > Scored(args.query, other).score

\* a two-term query whose terms both match, scored against a record that
\* exists in a variant where only one of them matches and nothing else differs
C12_Witness ==
    /\ pc = "calculateScore"
    /\ Len(TermsOf(args.query)) = 2
    /\ AllTermsMatch(args.query, args.website)
    /\ BonusIn(ret.score, args.query, args.website) = 200
    /\ \E other \in ScoreWebsites :
          /\ ~AllTermsMatch(args.query, other)
          /\ \E i \in 1..2 : TermMatchesRecord(TermsOf(args.query)[i], other)
          /\ SameOtherFactors(args.query, args.website, other)
          /\ ret.score > Scored(args.query, other).score

\* ------------------------------------------------------------------------
\* C13
\* ------------------------------------------------------------------------

\* the score of the record of the call with its pin taken off
UnpinnedScore ==
    Scored(args.query, [args.website EXCEPT !.is_pinned = FALSE]).score

\* C13: the score of a pinned record is the score of the same record unpinned
\* plus exactly 50 when that score is positive and plus 0 otherwise, and an
\* unpinned record gets no boost; a pinned record that matches the query in no
\* field has score 0 and is not returned by smartSearch.
C13_PinnedBoost ==
    /\ pc = "calculateScore" =>
           ret.score = IF args.website.is_pinned /\ UnpinnedScore > 0
                       THEN UnpinnedScore + 50 ELSE UnpinnedScore
    /\ (pc = "smartSearch" /\ args.website.is_pinned /\ UnpinnedScore = 0) =>
           ret.websites = <<>>

\* a pinned record without any match was scored 0
C13_Witness ==
    /\ pc = "calculateScore"
    /\ args.website.is_pinned
    /\ UnpinnedScore = 0
    /\ ret.score = 0
    /\ ret.matchedFields = <<>>

\* ------------------------------------------------------------------------
\* C14
\* ------------------------------------------------------------------------

\* the composite score of a candidate, read off the scoring of the model
CompositeScore(website) == RelatedScore(website, args.currentWebsite).score

\* C14: for every limit >= 0, findRelatedWebsites returns no record with the
\* id of the target, at most limit records, and only records whose composite
\* score is > 0.
C14_RelatedSafety ==
    pc = "findRelatedWebsites" =>
        /\ Len(ret) <= args.limit
        /\ \A i \in 1..Len(ret) :
              /\ ret[i].id # args.currentWebsite.id
              /\ ret[i] \in Range(args.allWebsites)
              /\ CompositeScore(ret[i]) > 0

\* the target was in the list with more positive candidates than the limit,
\* and exactly limit records came back
C14_Witness ==
    /\ pc = "findRelatedWebsites"
    /\ args.currentWebsite \in Range(args.allWebsites)
    /\ Cardinality({w \in Range(args.allWebsites) :
                       w.id # args.currentWebsite.id /\ CompositeScore(w) > 0}) > args.limit
    /\ args.limit >= 1
    /\ Len(ret) = args.limit

\* ------------------------------------------------------------------------
\* C15
\* ------------------------------------------------------------------------

\* round(weight x |A \cap B| / |A \cup B|), 0 when both sets are empty
RoundedJaccard(weight, setA, setB) ==
    IF setA \cup setB = {} THEN 0
    ELSE (2 * weight * Cardinality(setA \cap setB) + Cardinality(setA \cup setB))
             \div (2 * Cardinality(setA \cup setB))

\* the two records have the same hostname, and it is not empty
SameHostname(website, target) ==
    /\ Hostname(target.url) \notin {Null, ""}
    /\ Hostname(website.url) = Hostname(target.url)

\* the two records have the same domain as getDomain gives it (the hostname
\* without its first "www."), and it is not empty
SameDomain(website, target) ==
    /\ getDomain(target.url) # ""
    /\ getDomain(website.url) = getDomain(target.url)

\* the composite score of a candidate as the claim gives it, for a reading
\* sameSite of 'same site'
ClaimedScore(website, target, sameSite) ==
    (IF website.category = target.category THEN 5 ELSE 0)
    + (IF sameSite THEN 3 ELSE 0)
    + RoundedJaccard(4, tokenize(target.title), tokenize(website.title))
    + (IF tokenize(target.description) # {}
       THEN RoundedJaccard(3, tokenize(target.description), tokenize(website.description))
       ELSE 0)

HostnameScore(website) ==
    ClaimedScore(website, args.currentWebsite, SameHostname(website, args.currentWebsite))

DomainScore(website) ==
    ClaimedScore(website, args.currentWebsite, SameDomain(website, args.currentWebsite))

\* position of a record in the list passed to findRelatedWebsites
RelatedIndex(website) ==
    CHOOSE k \in 1..Len(args.allWebsites) : args.allWebsites[k] = website

\* the result is the first limit records of the candidates (not the target,
\* score > 0) ordered by Score descending, ties in input order
IsTopByScore(Score(_)) ==
    LET cand == {w \in Range(args.allWebsites) :
                    w.id # args.currentWebsite.id /\ Score(w) > 0}
        Before(v, w) ==
            \/ Score(v) > Score(w)
            \/ Score(v) = Score(w) /\ RelatedIndex(v) < RelatedIndex(w)
    IN /\ Len(ret) = Min2(args.limit, Cardinality(cand))
       /\ \A i \in 1..Len(ret) : ret[i] \in cand
       /\ \A i, j \in 1..Len(ret) : i < j => Before(ret[i], ret[j])
       /\ \A w \in cand \ Range(ret) : \A i \in 1..Len(ret) : Before(ret[i], w)

\* C15 as stated: findRelatedWebsites returns the first limit candidates by
\* composite score descending, ties in input order, the score being 5 for an
\* equal category + 3 for the same non-empty hostname + round(4 x Jaccard of
\* the title tokens) + round(3 x Jaccard of the description tokens) when the
\* target's description has tokens.
C15_RankedByHostnameScore ==
    pc = "findRelatedWebsites" => IsTopByScore(HostnameScore)

\* C15 amended: the same, with the 3 points given for the same non-empty
\* domain, which is the hostname without its first "www.".
C15_RankedByDomainScore ==
    pc = "findRelatedWebsites" => IsTopByScore(DomainScore)

\* two records came back in the order opposite to their input order because
\* the 3 points went to a record whose hostname differs from the target's by
\* "www." only, ahead of a record whose Jaccard product was rounded up, and
\* the limit left out a later record with that same score
C15_Witness ==
    /\ pc = "findRelatedWebsites"
    /\ Len(ret) = 2
    /\ RelatedIndex(ret[1]) > RelatedIndex(ret[2])
    /\ SameDomain(ret[1], args.currentWebsite)
    /\ ~SameHostname(ret[1], args.currentWebsite)
    /\ DomainScore(ret[2]) = 1
    /\ \E w \in Range(args.allWebsites) \ Range(ret) :
          w.id # args.currentWebsite.id /\ DomainScore(w) = 1

\* ------------------------------------------------------------------------
\* C16
\* ------------------------------------------------------------------------

\* C16: jaccardSimilarity is symmetric, lies in [0, 1], is
\* |A \cap B| / |A \cup B| when the union is not empty, and is 0 (with no
\* division by zero) for two empty sets.
C16_Jaccard ==
    pc = "jaccardSimilarity" =>
        LET swapped == jaccardSimilarity(args.setB, args.setA)
        IN /\ ret[2] > 0
           /\ swapped[2] > 0
           /\ ret[1] * swapped[2] = swapped[1] * ret[2]
           /\ 0 <= ret[1] /\ ret[1] <= ret[2]
           /\ args.setA \cup args.setB # {} =>
                  ret[1] * Cardinality(args.setA \cup args.setB)
                      = Cardinality(args.setA \cap args.setB) * ret[2]
           /\ args.setA \cup args.setB = {} => ret[1] = 0

\* two different sets that share a token: a similarity strictly between 0 and 1
C16_Witness ==
    /\ pc = "jaccardSimilarity"
    /\ args.setA \cap args.setB # {}
    /\ args.setA \ args.setB # {}
    /\ args.setB \ args.setA # {}
    /\ 0 < ret[1] /\ ret[1] < ret[2]

\* ------------------------------------------------------------------------
\* C17
\* ------------------------------------------------------------------------

\* a text with no ':' has no scheme: new URL(text) throws
HasNoScheme(url) == \A i \in 1..Len(url) : Char(url, i) # ":"

NoDomainScore(website) == ClaimedScore(website, args.currentWebsite, FALSE)

\* C17: for an unparsable or missing URL getDomain returns "" ;
\* findRelatedWebsites then returns a list all the same, and no candidate
\* gets the 3 same-domain points, one whose URL is unparsable too included.
C17_NoDomain ==
    /\ pc = "getDomain" /\ HasNoScheme(args.currentWebsite.url) => ret = ""
    /\ pc = "findRelatedWebsites" /\ HasNoScheme(args.currentWebsite.url) =>
           /\ ret \in Seq(Range(args.allWebsites))
           /\ IsTopByScore(NoDomainScore)
           /\ \A w \in Range(args.allWebsites) :
                  RelatedScore(w, args.currentWebsite).score = NoDomainScore(w)

\* the target and a returned record both have an unparsable URL
C17_Witness ==
    /\ pc = "findRelatedWebsites"
    /\ HasNoScheme(args.currentWebsite.url)
    /\ \E i \in 1..Len(ret) :
          /\ HasNoScheme(ret[i].url)
          /\ getDomain(ret[i].url) = getDomain(args.currentWebsite.url)

\* ------------------------------------------------------------------------
\* C18
\* ------------------------------------------------------------------------

\* C18: a call of smartSearch, quickSearch, buildVocabulary or
\* findRelatedWebsites leaves the array of records with the same elements in
\* the same order, every field of every record as it was, and the vocabulary
\* with the same members.
C18_InputsUnchanged ==
    [][/\ Len(args'.websites) = Len(args.websites)
       /\ \A i \in 1..Len(args.websites) : args'.websites[i] = args.websites[i]
       /\ args'.vocabulary = args.vocabulary]_vars

\* smartSearch was given a vocabulary and returned the records in an order
\* that is not the order of its input
C18_Witness ==
    /\ pc = "smartSearch"
    /\ args.vocabulary # Null
    /\ \E i, j \in 1..Len(ret.websites) :
          i < j /\ InputIndex(ret.websites[i]) > InputIndex(ret.websites[j])

\* ------------------------------------------------------------------------
\* C19
\* ------------------------------------------------------------------------

\* the title, description, category and url of the records
FieldsOf(websites) ==
    UNION {{w.title, w.description, w.category, w.url} : w \in Range(websites)}

\* the orders the records of a list can come in
Reorderings(websites) ==
    {p \in DistinctSeqsOfLen(Range(websites), Len(websites)) : TRUE}

\* C19: buildVocabulary gives exactly the tokens of 3 or more characters that
\* extractWords finds in a title, description, category or url; each is
\* lowercase and made of word characters only, and the order of the records
\* does not change the set.
C19_Vocabulary ==
    pc = "buildVocabulary" =>
        /\ Range(ret) = {t \in UNION {Range(extractWords(f)) : f \in FieldsOf(args.websites)} :
                            Len(t) >= 3}
        /\ \A i, j \in 1..Len(ret) : ret[i] = ret[j] => i = j
        /\ \A t \in Range(ret) :
              /\ t = toLowerCase(t)
              /\ \A i \in 1..Len(t) : IsWordChar(Char(t, i))
        /\ \A p \in Reorderings(args.websites) : Range(buildVocabulary(p)) = Range(ret)

\* a word of two characters left out ("ui") and a word that two records share
\* kept once
C19_Witness ==
    /\ pc = "buildVocabulary"
    /\ \E i \in 1..Len(args.websites) :
          "ui" \in Range(extractWords(args.websites[i].title))
    /\ \E i, j \in 1..Len(args.websites) :
          /\ i # j
          /\ "react" \in Range(extractWords(args.websites[i].title))
          /\ "react" \in Range(extractWords(args.websites[j].title))
    /\ "react" \in Range(ret)
    /\ "ui" \notin Range(ret)

\* ------------------------------------------------------------------------
\* C20
\* ------------------------------------------------------------------------

\* the records the search is made over: those of the selected category
CandidateRecords == FilterByCategory(args.websites, args.selectedCategory)

AiSearchRequested == pc = "filterWebsites" /\ args.useAI /\ Trim(args.query) # ""

KnownIds(ids) == {i \in 1..Len(ids) : \E w \in Range(CandidateRecords) : w.id = ids[i]}

\* the server endpoint gave an error and no list
ServerError ==
    \/ args.server.status \in {"network", "http", "badjson"}
    \/ args.server.error # ""

\* the server endpoint failed: an error, or a list that is no array or names
\* no candidate
ServerFailed ==
    \/ ServerError
    \/ ~args.server.isArray
    \/ KnownIds(args.server.ids) = {}

\* the client-side model failed: an error, a text that does not parse, or a
\* list that is no array or names no candidate
ClientFailed ==
    \/ args.client.error # ""
    \/ ~args.client.parses
    \/ ~args.client.isArray
    \/ KnownIds(args.client.ids) = {}

\* the client-side model is tried: after an error of the server endpoint, when
\* a key is configured and there are candidates
ClientTried == ServerError /\ args.hasKey /\ Len(CandidateRecords) > 0

LocalResult == smartSearch(args.query, CandidateRecords, args.vocabulary).result.websites

\* filterWebsites ran to its end: the list was set, last, and the AI search
\* is marked as over
ListUpdated ==
    /\ Len(calls) > 0
    /\ calls[Len(calls)] = "setFilteredWebsites"
    /\ ret.isSearchingAI = FALSE

ShortOf(a, b) == IF Len(a) > Len(b) THEN b ELSE a

LongOf(a, b) == IF Len(a) > Len(b) THEN a ELSE b

\* row j of the single-row dynamic program, every row before it filled in
\* with no abort
RECURSIVE RowOf(_, _, _)
RowOf(a, b, j) ==
    IF j = 0 THEN [i \in 1..(Len(a) + 1) |-> i - 1]
    ELSE FillRow(a, b, j, RowOf(a, b, j - 1), <<j>>)

\* the dynamic program run to completion, with the final cap only
RunToCompletion(a, b, maxDistance) ==
    LET last == RowOf(ShortOf(a, b), LongOf(a, b), Len(LongOf(a, b)))[Len(ShortOf(a, b)) + 1]
    IN IF last <= maxDistance THEN last ELSE Infinity

\* the rows whose minimum is above maxDistance
AbortingRows(a, b, maxDistance) ==
    {j \in 1..Len(LongOf(a, b)) :
        SeqMin(RowOf(ShortOf(a, b), LongOf(a, b), j)) > maxDistance}

\* C21: for non-empty strings a # b and every maxDistance >= 0,
\* levenshteinDistance returns what the same dynamic program returns when it
\* is run to completion with the final cap only; the abort on the row minimum
\* never turns a distance <= maxDistance into Infinity.
C21_AbortPreservesResult ==
    pc = "levenshteinDistance" /\ args.a # "" /\ args.b # "" /\ args.a # args.b =>
        /\ ret = RunToCompletion(args.a, args.b, args.maxDistance)
        /\ EditDistance(args.a, args.b) <= args.maxDistance =>
               ret = EditDistance(args.a, args.b)

\* the loop was entered and left by the abort before its last row
C21_Witness ==
    /\ pc = "levenshteinDistance"
    /\ args.a # "" /\ args.b # "" /\ args.a # args.b
    /\ Abs(Len(args.a) - Len(args.b)) <= args.maxDistance
    /\ \E j \in AbortingRows(args.a, args.b, args.maxDistance) : j < Len(LongOf(args.a, args.b))
    /\ ret = Infinity

\* ------------------------------------------------------------------------
\* C22
\* ------------------------------------------------------------------------

\* a word boundary lies before position p of the text: of the characters on
\* the two sides of it, one is a word character and the other is not (or is
\* not there)
BoundaryBefore(text, p) ==
    (p > 1 /\ Char(text, p - 1) \in WordChars)
        # (p <= Len(text) /\ Char(text, p) \in WordChars)

OccursAt(term, text, p) ==
    p + Len(term) - 1 <= Len(text) /\ SubSeq(text, p, p + Len(term) - 1) = term

\* the term occurs in the text with a word boundary on both sides
OccursAsWord(term, text) ==
    \E p \in 1..Len(text) :
        /\ OccursAt(term, text, p)
        /\ BoundaryBefore(text, p)
        /\ BoundaryBefore(text, p + Len(term))

\* the term occurs in the text right after a word boundary
OccursAtWordStart(term, text) ==
    \E p \in 1..Len(text) : OccursAt(term, text, p) /\ BoundaryBefore(text, p)

\* how many times a tag is in matchedFields
TagCount(tag) ==
    Cardinality({i \in 1..Len(ret.matchedFields) : ret.matchedFields[i] = tag})

\* the full-query title tiers are decided by word boundaries
FullQueryTiersAnchored ==
    LET queryLower == Trim(toLowerCase(args.query))
        titleLower == toLowerCase(args.website.title)
    IN /\ "title-exact-word" \in Range(ret.matchedFields)
              <=> OccursAsWord(queryLower, titleLower)
       /\ "title-word-start" \in Range(ret.matchedFields)
              <=> /\ ~OccursAsWord(queryLower, titleLower)
                  /\ OccursAtWordStart(queryLower, titleLower)

\* the per-term title tiers are decided by word boundaries
TermTiersAnchored ==
    LET terms == TermsOf(args.query)
        titleLower == toLowerCase(args.website.title)
    IN /\ TagCount("title-word")
              = Cardinality({i \in 1..Len(terms) : OccursAsWord(terms[i], titleLower)})
       /\ TagCount("title-prefix")
              = Cardinality({i \in 1..Len(terms) :
                                /\ ~OccursAsWord(terms[i], titleLower)
                                /\ OccursAtWordStart(terms[i], titleLower)})

\* C22: the exact-word tiers (1000 for the full query, 500 per term) are
\* earned exactly by an occurrence in the title with a word boundary on both
\* sides, the word-start tiers (400 and 300) exactly by an occurrence right
\* after a word boundary with no exact-word occurrence, and an occurrence in
\* the interior of a word earns none of them.
C22_WordBoundaryTiers ==
    pc = "calculateScore" => FullQueryTiersAnchored /\ TermTiersAnchored

\* ------------------------------------------------------------------------
\* C23
\* ------------------------------------------------------------------------

\* the words of the title that the per-term tiers look at
TitleWordsOf(website) == SelectSeq(WordsOf(website.title), LongerThanOne)

\* the similarity of two lowercase strings is at least 0.75
SimilarEnough(a, b) ==
    4 * (Max2(Len(a), Len(b)) - EditDistance(a, b)) >= 3 * Max2(Len(a), Len(b))

\* the term is equal to, or a prefix of, a title word
IsWordOrPrefix(term, website) ==
    \E w \in Range(TitleWordsOf(website)) : StartsWith(w, term)

\* the terms the claim gives the fuzzy award to: of length >= 4, not a word or
\* prefix of a word of the title, and similar enough to one of the title
\* words that are among candidates
FuzzyTerms(candidates) ==
    {i \in 1..Len(TermsOf(args.query)) :
        /\ Len(TermsOf(args.query)[i]) >= 4
        /\ ~IsWordOrPrefix(TermsOf(args.query)[i], args.website)
        /\ \E w \in Range(TitleWordsOf(args.website)) \cap candidates :
              SimilarEnough(TermsOf(args.query)[i], w)}

\* at most one of the three title tiers per term
TitleTiersExclusive ==
    /\ TagCount("title-word")
           = Cardinality({i \in 1..Len(TermsOf(args.query)) :
                             TermsOf(args.query)[i] \in Range(TitleWordsOf(args.website))})
    /\ TagCount("title-prefix")
           = Cardinality({i \in 1..Len(TermsOf(args.query)) :
                             /\ TermsOf(args.query)[i] \notin Range(TitleWordsOf(args.website))
                             /\ IsWordOrPrefix(TermsOf(args.query)[i], args.website)})

AnyWord == Range(TitleWordsOf(args.website))

WordsOfFourOrMore == {w \in Range(TitleWordsOf(args.website)) : Len(w) >= 4}

\* the points of the awards, by the tags pushed on matchedFields: the fuzzy
\* award is worth 150
TaggedPoints ==
    1000 * TagCount("title-exact-word") + 400 * TagCount("title-word-start")
    + 200 * TagCount("description-exact-word") + 400 * TagCount("category-exact")
    + 200 * TagCount("category-contains") + 250 * TagCount("url-exact-part")
    + 100 * TagCount("url-starts") + 350 * TagCount("title-acronym")
    + 500 * TagCount("title-word") + 300 * TagCount("title-prefix")
    + 150 * TagCount("title-fuzzy") + 150 * TagCount("desc-word")
    + 100 * TagCount("url-term")

\* C23 as stated: a term of length >= 4 that is no word or prefix of a word of
\* the title gets one 150-point fuzzy award when some title word has a
\* similarity >= 0.75 to it and none otherwise, a shorter term never, and per
\* term at most one of the 500, 300 and 150 title awards is given.
C23_FuzzyAnyTitleWord ==
    pc = "calculateScore" =>
        /\ TagCount("title-fuzzy") = Cardinality(FuzzyTerms(AnyWord))
        /\ TitleTiersExclusive

\* C23 amended: the same, the similar title word being one of length >= 4.
C23_FuzzyLongTitleWord ==
    pc = "calculateScore" =>
        /\ TagCount("title-fuzzy") = Cardinality(FuzzyTerms(WordsOfFourOrMore))
        /\ TitleTiersExclusive
        /\ ret.score - TaggedPoints \in {0, 50, 200, 250}

\* a term got the fuzzy award for a title word at similarity 0.75 exactly
C23_Witness ==
    /\ pc = "calculateScore"
    /\ TagCount("title-fuzzy") = 1
    /\ \E w \in WordsOfFourOrMore :
          /\ Len(w) = 4
          /\ Len(args.query) = 4
          /\ EditDistance(args.query, w) = 1

\* ------------------------------------------------------------------------
\* C24
\* ------------------------------------------------------------------------

\* a hostname without the "www." it starts with, if it starts with one
StripLeadingWww(hostname) ==
    IF StartsWith(hostname, "www.") THEN SubSeq(hostname, 5, Len(hostname)) ELSE hostname

\* the two addresses parse, and their hostnames are equal once a leading
\* "www." is removed from each
SameHostnameBarLeadingWww(urlA, urlB) ==
    /\ Hostname(urlA) \notin {Null, ""}
    /\ Hostname(urlB) \notin {Null, ""}
    /\ StripLeadingWww(Hostname(urlA)) = StripLeadingWww(Hostname(urlB))

\* C24: two records get the 3 same-domain points exactly when their hostnames
\* are equal after a "www." at the start of each is removed; a "www."
\* elsewhere in a hostname stays and does not make two different hostnames
\* equal. (The records of this specification share nothing else, so the
\* candidate is returned exactly when it got the 3 points.)
C24_LeadingWwwOnly ==
    /\ pc = "findRelatedWebsites" /\ args.allWebsites[1].id # args.currentWebsite.id =>
           (ret = args.allWebsites
                <=> SameHostnameBarLeadingWww(args.allWebsites[1].url, args.currentWebsite.url))
    /\ pc = "getDomain" /\ Hostname(args.allWebsites[1].url) # Null =>
           ret = StripLeadingWww(Hostname(args.allWebsites[1].url))

\* ------------------------------------------------------------------------
\* C25
\* ------------------------------------------------------------------------

\* the suffixes of the list that the lowercased word ends with and that leave
\* it long enough
QualifyingSuffixes(word) ==
    {suffix \in Range(Suffixes) :
        /\ Len(word) > Len(suffix) + 2
        /\ SubSeq(toLowerCase(word), Len(word) - Len(suffix) + 1, Len(word)) = suffix}

\* C25: stemWord returns the lowercased word without the longest suffix of
\* the list that it ends with, subject to word length > suffix length + 2,
\* and the lowercased word as it is when no suffix qualifies.
C25_LongestSuffix ==
    pc = "stemWord" =>
        IF QualifyingSuffixes(args.word) = {} THEN ret = toLowerCase(args.word)
        ELSE \E longest \in QualifyingSuffixes(args.word) :
                /\ \A other \in QualifyingSuffixes(args.word) : Len(other) <= Len(longest)
                /\ ret = SubSeq(toLowerCase(args.word), 1, Len(args.word) - Len(longest))

\* ------------------------------------------------------------------------
\* C26
\* ------------------------------------------------------------------------

\* the positions after the first whose code is not zero and differs from the
\* code of the character just before
CodedPositions(w) ==
    {i \in 2..Len(w) :
        /\ PhoneticCode(Char(w, i)) # "0"
        /\ PhoneticCode(Char(w, i)) # PhoneticCode(Char(w, i - 1))}

\* the first character, the codes of the first three such positions, and
\* zeros up to 4 characters
ExpectedHash(w) ==
    LET coded == InOrder(CodedPositions(w))
        kept == Min2(3, Len(coded))
    IN Char(w, 1)
           \o Concat([n \in 1..kept |-> PhoneticCode(Char(w, coded[n]))], 1, kept)
           \o Concat([n \in 1..(3 - kept) |-> "0"], 1, 3 - kept)

\* C26 as stated: for every input string phoneticHash returns 4 characters:
\* the first character lowercased, then the digits of the following letters,
\* each only if not zero and different from the code of the character before
\* it, cut at 4 characters and padded with '0'.
C26_FourCharacters ==
    pc = "phoneticHash" =>
        /\ Len(ret) = 4
        /\ args.word # "" => ret = ExpectedHash(toLowerCase(args.word))

\* C26 amended: the same for every input string that is not empty.
C26_FourCharactersNonEmpty ==
    pc = "phoneticHash" /\ args.word # "" =>
        /\ Len(ret) = 4
        /\ ret = ExpectedHash(toLowerCase(args.word))

\* a word with a doubled code left out, a vowel between two codes and more
\* codes than fit
C26_Witness ==
    /\ pc = "phoneticHash"
    /\ Len(args.word) > 4
    /\ \E i \in 2..Len(args.word) :
          /\ PhoneticCode(Char(toLowerCase(args.word), i)) # "0"
          /\ i \notin CodedPositions(toLowerCase(args.word))
    /\ Cardinality(CodedPositions(toLowerCase(args.word))) > 3
    /\ Char(args.word, 1) # Char(ret, 1)

\* ------------------------------------------------------------------------
\* C27
\* ------------------------------------------------------------------------

QuickSeparators == SpaceChars \cup {"-", "_", "/", "."}

\* title, description, category and url, lowercased, with a space between
ConcatenatedFields(website) ==
    toLowerCase(website.title \o " " \o website.description \o " "
                    \o website.category \o " " \o website.url)

\* the query stands in the text, anywhere or at the start of a word
SubstringOrWordPrefix(text, q) ==
    \/ \E p \in 1..(Len(text) - Len(q) + 1) : SubSeq(text, p, p + Len(q) - 1) = q
    \/ \E p \in 1..(Len(text) - Len(q) + 1) :
          /\ SubSeq(text, p, p + Len(q) - 1) = q
          /\ p = 1 \/ Char(text, p - 1) \in QuickSeparators

\* the character q starts a word of two or more characters of title,
\* description or category
StartsLongerWord(website, q) ==
    LET text == toLowerCase(website.title \o " " \o website.description \o " "
                                \o website.category)
    IN \E p \in 1..(Len(text) - 1) :
          /\ Char(text, p) = q
          /\ IsWordChar(q)
          /\ p = 1 \/ ~IsWordChar(Char(text, p - 1))
          /\ IsWordChar(Char(text, p + 1))

QuickQuery == toLowerCase(Trim(args.query))

ClaimedQuick(website) == SubstringOrWordPrefix(ConcatenatedFields(website), QuickQuery)

AmendedQuick(website) ==
    IF Len(QuickQuery) = 1 THEN StartsLongerWord(website, QuickQuery)
    ELSE \/ SubstringOrWordPrefix(ConcatenatedFields(website), QuickQuery)
         \/ /\ Len(QuickQuery) <= 4
            /\ StartsWith(generateAcronym(website.title), QuickQuery)

\* C27 as stated: quickSearch returns, in input order, exactly the records
\* in whose concatenated title, description, category and url the lowercased
\* trimmed query is a substring or the prefix of a word, and the input as it
\* is for an empty or whitespace-only query.
C27_SubstringOrPrefixOnly ==
    pc = "quickSearch" =>
        ret = IF QuickQuery = "" THEN args.websites
              ELSE SelectSeq(args.websites, ClaimedQuick)

\* C27 amended: a query of one character keeps the records in which it
\* starts a word of two or more characters of title, description or
\* category; a longer query keeps those where it is a substring or the
\* prefix of a word of the concatenated fields or, with at most 4
\* characters, a prefix of the acronym of the title; input order, no
\* threshold; the input as it is for an empty query.
C27_QuickFilter ==
    pc = "quickSearch" =>
        ret = IF QuickQuery = "" THEN args.websites
              ELSE SelectSeq(args.websites, AmendedQuick)

\* calls reached: a query of one character that keeps some records and drops
\* others which contain it, and an acronym that is no substring
C27_Witness ==
    /\ pc = "quickSearch"
    /\ Len(args.websites) = MaxWebsites
    /\ \/ /\ Len(QuickQuery) = 1
          /\ \E i, j \in 1..Len(args.websites) :
                /\ args.websites[i] \in Range(ret)
                /\ args.websites[j] \notin Range(ret)
                /\ ClaimedQuick(args.websites[j])
       \/ /\ Len(QuickQuery) > 1
          /\ \E i \in 1..Len(args.websites) :
                /\ args.websites[i] \in Range(ret)
                /\ ~ClaimedQuick(args.websites[i])

\* ------------------------------------------------------------------------
\* C28
\* ------------------------------------------------------------------------

\* the searches whose await ends in this step
Completing == args.pending \ args'.pending

\* C28: once a newer search has been issued, the completion of an older
\* filterWebsites call changes neither filteredWebsites nor the suggestion,
\* and when no search is in flight the list displayed is the one written by
\* the search issued last.
C28_StaleResultsDiscarded ==
    /\ [][(pc' = "searchWebsitesWithAI" /\ Completing \cap args.superseded # {}) =>
             /\ ret'.filteredWebsites = ret.filteredWebsites
             /\ ret'.searchSuggestion = ret.searchSuggestion]_vars
    /\ []((InSession /\ args.pending = {}) => args.latestShown)

\* ------------------------------------------------------------------------
\* C29
\* ------------------------------------------------------------------------

\* C29: searchWebsitesWithAI is invoked only in a step of handleSearch (Enter
\* key or search button), never in a step of typing, of a category change or
\* of a refresh of the records.
C29_AiSearchOnlyOnExplicitTrigger ==
    [][(InSession /\ Len(calls') > Len(calls)) => pc' = "handleSearch"]_vars

\* ------------------------------------------------------------------------
\* C30
\* ------------------------------------------------------------------------

\* the records of ws at the positions kept, in the order of ws
SubList(ws, kept) == [n \in 1..Cardinality(kept) |-> ws[InOrder(kept)[n]]]

\* the records of ws that are in the list s, in the order of ws
RestrictedTo(ws, s) ==
    LET InS(website) == website \in Range(s)
    IN SelectSeq(ws, InS)

\* C30: smartSearch on its own result gives that result again, same records
\* and same order; and for every sub-list S of the input, in input order,
\* smartSearch on S gives the records of S that the search on the whole input
\* gave, in the same relative order.
C30_ComposesWithItself ==
    pc = "smartSearch" =>
        /\ smartSearch(args.query, ret.websites, Null).result.websites = ret.websites
        /\ \A kept \in SUBSET (1..Len(args.websites)) :
              smartSearch(args.query, SubList(args.websites, kept), Null).result.websites
                  = RestrictedTo(ret.websites, SubList(args.websites, kept))

\* a search that dropped a record, changed the order of the input and
\* returned two records of equal score
C30_Witness ==
    /\ pc = "smartSearch"
    /\ Trim(args.query) # ""
    /\ Len(args.websites) = MaxWebsites
    /\ Len(ret.websites) = 2
    /\ Scored(Trim(args.query), ret.websites[1]).score
           = Scored(Trim(args.query), ret.websites[2]).score
    /\ \E i, j \in 1..Len(args.websites) :
          i < j /\ args.websites[j] = ret.websites[1] /\ args.websites[i] \notin Range(ret.websites)

====
